---- MODULE Spec2Model ----
(***************************************************************************)
(* A model of the scraping scripts of dwillis/wbb.  The repository is a    *)
(* collection of independent scripts, so the module holds one state        *)
(* machine per script under study, each with its own variables and its     *)
(* own specification; a specification holds the other scripts' variables   *)
(* at their idle values.                                                   *)
(*                                                                         *)
(*   SpecDispatch  ncaa/rosters/rosters.py  TeamConfig.get_config and      *)
(*                 ScraperFactory.create_scraper on one team id            *)
(*   SpecScrape    ncaa/rosters/rosters.py  RosterManager                  *)
(*                 .scrape_multiple_teams                                  *)
(*   SpecMain      ncaa/rosters/rosters.py  main                           *)
(*   SpecLoops     the scraping loops of rosters.py, stats/team_ids.py     *)
(*                 and fiba/player_game.py                                 *)
(*   SpecRetry     ncaa/scripts/utils.py limit_handled and                 *)
(*                 fiba/scrape_boxscore.py get_players                     *)
(*   SpecGames     ncaa/games/game_utils.py  fetch_game_stats              *)
(*   SpecCoachDb   ncaa/coaches/load_coaching_histories.py and             *)
(*                 ncaa/coaches/build_coach_db.py                          *)
(*   SpecSeason    ncaa/games/game_utils.py  validate_season               *)
(*   SpecExtract   ncaa/coaches/extract_coaching_histories.py  main        *)
(*   SpecBios      ncaa/coaches/fetch_coach_bios.py  main                  *)
(*   SpecConvert   ncaa/officials/convert.py  convert_csv_to_json          *)
(*   SpecOfficialDays  ncaa/officials/official_days.py                     *)
(*                 convert_officials_to_csv                                *)
(***************************************************************************)
EXTENDS Integers, Sequences, FiniteSets, TLC

VARIABLES
    \* ---- TeamConfig.get_config / ScraperFactory.create_scraper on one team id (rosters.py)
    d_pc,                     \* "config" -> "factory" -> "built"
    d_team_id,                \* the team id looked up
    d_config,                 \* what get_config returned
    d_scraper,                \* what create_scraper returned
    \* ---- main / RosterManager (rosters.py)
    main_pc,                  \* position in main
    m_pc,                     \* position in scrape_multiple_teams
    args,                     \* argparse namespace of main
    PLAYWRIGHT_AVAILABLE,     \* module flag set by the optional import
    teams_data,               \* RosterManager.teams_data (teams.json)
    entity_type,              \* self.entity_type of the manager that is running
    team_ids,                 \* team_ids argument of scrape_multiple_teams
    teams,                    \* local list `teams` of scrape_multiple_teams
    idx,                      \* index of the loop `for team in teams` (1-based)
    players,                  \* len(players) of the current iteration
    all_players,              \* local all_players (one entry per scraped entity)
    zero_player_teams,        \* self.zero_player_teams
    failed_year_check_teams,  \* self.failed_year_check_teams
    attempts,                 \* log: one entry per team taken by scrape_team_roster
    \* ---- process_team_files (ncaa/stats/team_ids.py)
    ti_pc,                    \* position: "files", "rows", "get", "done"
    csv_files,                \* the input files found by glob, each the number of its rows
    ti_file,                  \* index of the loop `for input_file in csv_files`
    ti_row,                   \* index of the loop `for row in reader`
    rows_to_write,            \* local rows_to_write: the master_team_id of each row
    output_files,             \* the *_with_id.csv files written
    \* ---- scrape_all_games (fiba/player_game.py)
    pg_pc,                    \* position: "loop", "initial", "final", "done"
    game_data,                \* len(game_data)
    pg_i,                     \* the loop's i (0-based)
    all_player_stats,         \* local all_player_stats: the games whose records were added
    \* ---- limit_handled (ncaa/scripts/utils.py) and get_players / get_boxscore (fiba/scrape_boxscore.py)
    r_pc,                     \* position: "lh" in limit_handled; "gp", "gp_ajax" in get_players
    tweepy_v3,                \* whether the installed tweepy has RateLimitError (3.x) or not (4.x)
    cursor_pages,             \* the pages the cursor has
    cursor_page,              \* the page next(cursor) asks for
    link_ls,                  \* argument of get_players: the game links, None among them
    gp_a,                     \* index of the loop `for a in link_ls`
    all_tables,               \* local all_tables of get_players
    r_log,                    \* log of the requests issued and the sleeps taken
    \* ---- fetch_game_stats (ncaa/games/game_utils.py)
    g_pc,                     \* position: "season", "games", "fallback", "done"
    g_id,                     \* argument id of fetch_game_stats (NoId for None)
    teams_json,               \* the ncaa_id of each team of teams.json
    seasons,                  \* len(seasons)
    g_team,                   \* index of the loop over the teams
    g_season,                 \* index of the loop `for season in seasons`
    g_pass,                   \* which fetch_season* runs: "first" (in the try) or "fallback" (in the except)
    game_ids,                 \* local game_ids of the fetch_season* that runs
    g_game,                   \* index of the loop `for game_id in game_ids` of parse_games
    writes,                   \* how often each <slug>/<season>/<game_id>.json was written
    \* ---- load_coaching_histories (ncaa/coaches/load_coaching_histories.py) and insert_coaching_data (ncaa/coaches/build_coach_db.py)
    c_pc,                     \* position: "lch_loop", "lch_insert", "lch_index", "icd_loop", "done", "crashed"
    c_loader,                 \* which of the two loaders runs
    c_run,                    \* how many times the loader has been run on the database file
    c_read,                   \* how many coaches of the JSON file the loop has taken
    coaches_records,          \* local coaches_records of load_coaching_histories
    positions_records,        \* local positions_records: the coach_url of each
    education_records,        \* local education_records: the coach_url of each
    playing_career_records,   \* local playing_career_records: the coach_url of each
    coaches_pk,               \* the primary key column the coaches table was created with
    db,                       \* the database file: each table that exists, with its rows
    \* ---- validate_season (ncaa/games/game_utils.py)
    vs_pc,                    \* "call" -> "returned" or "raised"
    season,                   \* argument season
    vs_result,                \* what the call returned or raised
    \* ---- main of ncaa/coaches/extract_coaching_histories.py
    e_pc,                     \* position: "load", "process", "save", "saved", "returned", "exit"
    e_args,                   \* argparse namespace: resume, only_empty, test
    coaches_bios,             \* coach_bios.json: the (name, team) key of each biography
    existing_histories,       \* coaching_histories.json before the run (NoFile when absent)
    coaches,                  \* local coaches: the merged records
    coaches_to_process,       \* local coaches_to_process
    e_i,                      \* index of the loop over coaches_to_process
    processed_coaches,        \* local dict processed_coaches
    histories_file,           \* coaching_histories.json as the run leaves it
    \* ---- main of ncaa/coaches/fetch_coach_bios.py
    b_pc,                     \* position: "read", "process", "done", "returned"
    b_args,                   \* argparse namespace: names, limit, demo, shuffle
    csv_columns,              \* the header of the CSV file
    csv_rows,                 \* the rows of the CSV file
    b_rows,                   \* local rows of main after filter_rows
    b_idx,                    \* index of the loop of process_rows (1-based)
    processed_rows,           \* local processed of process_rows, each record with the row it was made of
    fetched,                  \* how many articles were asked for
    bios_file,                \* the JSON output file (NotWritten before write_json)
    \* ---- convert_csv_to_json (ncaa/officials/convert.py)
    cv_pc,                    \* position: "rows", "done", "crashed"
    cv_input,                 \* the lines of the CSV file the reader has given so far
    data,                     \* local data: the games kept
    seen_combinations,        \* local seen_combinations
    duplicates_count,         \* local duplicates_count
    json_file,                \* the JSON output file (NoJson before it is written)
    \* ---- convert_officials_to_csv (ncaa/officials/official_days.py)
    od_pc,                    \* position: "games", "done"
    od_read,                  \* how many games of games_data the loop has taken
    seen_entries,             \* every (date, start_time, location, official) of the games taken so far
    unique_records,           \* local unique_records
    csv_file,                 \* the CSV output file (NoCsv before it is written): the rows under the header
    \* ---- shared by the scraping loops
    http                      \* network log of the running loop

dispatchVars == <<d_pc, d_team_id, d_config, d_scraper>>
rosterVars == <<main_pc, m_pc, args, PLAYWRIGHT_AVAILABLE, teams_data, entity_type,
                 team_ids, teams, idx, players, all_players, zero_player_teams,
                 failed_year_check_teams, attempts>>
teamIdsVars == <<ti_pc, csv_files, ti_file, ti_row, rows_to_write, output_files>>
playerGameVars == <<pg_pc, game_data, pg_i, all_player_stats>>
retryVars == <<r_pc, tweepy_v3, cursor_pages, cursor_page, link_ls, gp_a, all_tables,
                r_log>>
gamesVars == <<g_pc, g_id, teams_json, seasons, g_team, g_season, g_pass, game_ids,
                g_game, writes>>
coachDbVars == <<c_pc, c_loader, c_run, c_read, coaches_records, positions_records,
                  education_records, playing_career_records, coaches_pk, db>>
seasonVars == <<vs_pc, season, vs_result>>
extractVars == <<e_pc, e_args, coaches_bios, existing_histories, coaches,
                  coaches_to_process, e_i, processed_coaches, histories_file>>
biosVars == <<b_pc, b_args, csv_columns, csv_rows, b_rows, b_idx, processed_rows,
               fetched, bios_file>>
convertVars == <<cv_pc, cv_input, data, seen_combinations, duplicates_count, json_file>>
officialDaysVars == <<od_pc, od_read, seen_entries, unique_records, csv_file>>

vars == <<dispatchVars, rosterVars, teamIdsVars, playerGameVars, retryVars,
           gamesVars, coachDbVars, seasonVars, extractVars, biosVars,
           convertVars, officialDaysVars, http>>

\* What each script leaves alone: the variables of the other scripts.
notDispatch == <<rosterVars, teamIdsVars, playerGameVars, retryVars, gamesVars,
                  coachDbVars, seasonVars, extractVars, biosVars, convertVars,
                  officialDaysVars, http>>
notRoster == <<dispatchVars, teamIdsVars, playerGameVars, retryVars, gamesVars,
                coachDbVars, seasonVars, extractVars, biosVars, convertVars,
                officialDaysVars>>
notTeamIds == <<dispatchVars, rosterVars, playerGameVars, retryVars, gamesVars,
                 coachDbVars, seasonVars, extractVars, biosVars, convertVars,
                 officialDaysVars>>
notPlayerGame == <<dispatchVars, rosterVars, teamIdsVars, retryVars, gamesVars,
                    coachDbVars, seasonVars, extractVars, biosVars, convertVars,
                    officialDaysVars>>
notRetry == <<dispatchVars, rosterVars, teamIdsVars, playerGameVars, gamesVars,
               coachDbVars, seasonVars, extractVars, biosVars, convertVars,
               officialDaysVars, http>>
notGames == <<dispatchVars, rosterVars, teamIdsVars, playerGameVars, retryVars,
               coachDbVars, seasonVars, extractVars, biosVars, convertVars,
               officialDaysVars, http>>
notCoachDb == <<dispatchVars, rosterVars, teamIdsVars, playerGameVars, retryVars,
                 gamesVars, seasonVars, extractVars, biosVars, convertVars,
                 officialDaysVars, http>>
notSeason == <<dispatchVars, rosterVars, teamIdsVars, playerGameVars, retryVars,
                gamesVars, coachDbVars, extractVars, biosVars, convertVars,
                officialDaysVars, http>>
notExtract == <<dispatchVars, rosterVars, teamIdsVars, playerGameVars, retryVars,
                 gamesVars, coachDbVars, seasonVars, biosVars, convertVars,
                 officialDaysVars, http>>
notBios == <<dispatchVars, rosterVars, teamIdsVars, playerGameVars, retryVars,
              gamesVars, coachDbVars, seasonVars, extractVars, convertVars,
              officialDaysVars, http>>
notConvert == <<dispatchVars, rosterVars, teamIdsVars, playerGameVars, retryVars,
                 gamesVars, coachDbVars, seasonVars, extractVars, biosVars,
                 officialDaysVars, http>>
notOfficialDays == <<dispatchVars, rosterVars, teamIdsVars, playerGameVars, retryVars,
                      gamesVars, coachDbVars, seasonVars, extractVars, biosVars,
                      convertVars, http>>

(***************************************************************************)
(* Helpers on sequences                                                    *)
(***************************************************************************)
Range(s) == {s[i] : i \in 1..Len(s)}

SeqsUpTo(S, n) == UNION {[1..k -> S] : k \in 0..n}

RECURSIVE FilterSeq(_, _)
\* Python list comprehension [t for t in s if t \in keep-set of indices]
FilterSeq(s, keep) ==
    IF s = <<>> THEN <<>>
    ELSE LET rest == FilterSeq(Tail(s), {i - 1 : i \in keep \ {1}})
         IN IF 1 \in keep THEN <<Head(s)>> \o rest ELSE rest

(***************************************************************************)
(* TeamConfig: the dispatch tables.  Each table is a function from the     *)
(* team ids it lists to the entry's own 'type' key, NoType when the entry  *)
(* has none (the other keys of an entry, selectors and URL formats, do not *)
(* take part in the choice of strategy).                                   *)
(***************************************************************************)
NoType == "<no type key>"

NUXT_JS_TEAMS ==
    [id \in {71, 83, 96, 99, 164, 176, 180, 191, 204, 229, 234, 367, 418, 428, 458,
      716, 718, 700, 355, 497, 441, 416, 509, 521, 522, 454, 404, 671, 574,
      664, 575, 698, 288, 400, 457, 156, 196, 725, 9, 502, 456, 469, 504,
      758, 490, 690, 732, 749, 110, 1104, 719, 772, 328, 635, 86, 694, 387,
      545, 721, 51, 419, 688, 311, 129, 8, 193, 649, 249, 430, 80, 257, 317,
      66, 562, 659, 756, 697, 173, 518, 47, 529, 676, 30135, 414, 434, 440,
      703, 796} |-> NoType]

S_PERSON_CARD_TEAMS == {67, 169, 157, 603}

TABLE_BASED_TEAMS ==
    [id \in {5, 26, 28, 31, 37, 64, 76, 77, 119, 125, 127, 128, 140, 147, 161, 170,
      186, 216, 218, 238, 255, 306, 308, 312, 324, 334, 388, 433, 463, 473,
      513, 523, 539, 554, 556, 559, 626, 657, 695, 736, 742, 777, 812, 674,
      630, 706, 365, 692, 648, 987, 1000, 1023, 1050, 1130, 1163, 1199,
      1348, 1355, 1356, 1460, 1467, 689, 11036, 12830, 224, 227, 24317,
      25719, 26107, 2798, 28594, 30042, 443, 30225, 325, 1315, 449, 455,
      486, 510, 517, 525, 532, 538, 544, 569, 591, 641, 684, 74, 762, 785,
      806, 809, 8981, 939, 953, 621, 8486, 8687, 8956, 30033, 30189} |-> NoType]

PRESTOSPORTS_SEASON_FIRST == [id \in {30253} |-> NoType]

CUSTOM_JS_TEAMS ==
    [id \in {178, 248, 327, 414, 415, 528, 129, 746, 811} |->
        IF id = 746 THEN "javascript" ELSE NoType]

VUE_DATA_TEAMS ==
    [id \in {406, 90, 172, 610, 331, 2711, 101, 235, 2707, 598, 620, 709, 158,
      1014, 68, 768, 72, 731} |->
        IF id \in {72, 731} THEN NoType ELSE "standard"]

\* {'type': default, **entry}: the entry's own 'type' key, when it has one,
\* replaces the default written before the spread.
Spread(default, entry_type) ==
    IF entry_type = NoType THEN default ELSE entry_type

\* get_config with the table's own type always winning over the entry's
get_config_table_type(team_id) ==
    IF team_id \in DOMAIN PRESTOSPORTS_SEASON_FIRST THEN [type |-> "standard"]
    ELSE IF team_id \in DOMAIN NUXT_JS_TEAMS THEN [type |-> "javascript"]
    ELSE IF team_id \in S_PERSON_CARD_TEAMS THEN [type |-> "javascript"]
    ELSE IF team_id \in DOMAIN TABLE_BASED_TEAMS THEN [type |-> "table"]
    ELSE IF team_id \in DOMAIN CUSTOM_JS_TEAMS THEN [type |-> "javascript"]
    ELSE IF team_id \in DOMAIN VUE_DATA_TEAMS THEN [type |-> "vue_data"]
    ELSE [type |-> "standard"]

get_config(team_id) ==
    IF team_id \in DOMAIN PRESTOSPORTS_SEASON_FIRST
        THEN [type |-> Spread("standard", PRESTOSPORTS_SEASON_FIRST[team_id])]
    ELSE IF team_id \in DOMAIN NUXT_JS_TEAMS
        THEN [type |-> "javascript"]
    ELSE IF team_id \in S_PERSON_CARD_TEAMS
        THEN [type |-> "javascript"]
    ELSE IF team_id \in DOMAIN TABLE_BASED_TEAMS
        THEN [type |-> Spread("table", TABLE_BASED_TEAMS[team_id])]
    ELSE IF team_id \in DOMAIN CUSTOM_JS_TEAMS
        THEN [type |-> Spread("javascript", CUSTOM_JS_TEAMS[team_id])]
    ELSE IF team_id \in DOMAIN VUE_DATA_TEAMS
        THEN [type |-> Spread("vue_data", VUE_DATA_TEAMS[team_id])]
    ELSE IF team_id \in {340}
        THEN [type |-> "standard"]
    ELSE IF team_id \in {77}
        THEN [type |-> "table"]
    ELSE IF team_id \in {352}
        THEN [type |-> "javascript"]
    ELSE [type |-> "standard"]

(***************************************************************************)
(* ENTITY_CONFIGS, BaseScraper.__init__ and ScraperFactory                 *)
(***************************************************************************)
ENTITY_CONFIGS == {"player", "coach"}

\* BaseScraper.__init__ reads ENTITY_CONFIGS[entity_type]: a KeyError for any
\* other entity type.  The scraper object is its class, its entity type and,
\* for JavaScriptScraper, its use_playwright flag.
KeyError == [class |-> "KeyError"]

BaseScraper(class, etype, use_playwright) ==
    IF etype \in ENTITY_CONFIGS
    THEN [class |-> class, entity_type |-> etype, use_playwright |-> use_playwright]
    ELSE KeyError

\* A plausible slip: the 'vue_data' branch is missing, so that type falls
\* through to the final else.
create_scraper_no_vue(scraper_type, etype, kw_use_playwright) ==
    IF scraper_type = "table" THEN BaseScraper("TableScraper", etype, FALSE)
    ELSE IF scraper_type = "javascript"
        THEN BaseScraper("JavaScriptScraper", etype,
                         kw_use_playwright /\ PLAYWRIGHT_AVAILABLE)
    ELSE BaseScraper("StandardScraper", etype, FALSE)

\* kw_use_playwright is kwargs.get('use_playwright', False)
create_scraper(scraper_type, etype, kw_use_playwright) ==
    IF scraper_type = "standard" THEN BaseScraper("StandardScraper", etype, FALSE)
    ELSE IF scraper_type = "table" THEN BaseScraper("TableScraper", etype, FALSE)
    ELSE IF scraper_type = "javascript"
        THEN BaseScraper("JavaScriptScraper", etype,
                         kw_use_playwright /\ PLAYWRIGHT_AVAILABLE)
    ELSE IF scraper_type = "vue_data" THEN BaseScraper("VueDataScraper", etype, FALSE)
    ELSE BaseScraper("StandardScraper", etype, FALSE)

\* The scraper class that implements each of the four strategies.
StrategyClass ==
    [t \in {"standard", "table", "javascript", "vue_data"} |->
        CASE t = "standard" -> "StandardScraper"
          [] t = "table" -> "TableScraper"
          [] t = "javascript" -> "JavaScriptScraper"
          [] t = "vue_data" -> "VueDataScraper"]

(***************************************************************************)
(* The network log shared by the scraping loops: what the last network     *)
(* event was, how many requests are in flight, and whether two requests    *)
(* ever followed each other with no sleep() between them.                  *)
(***************************************************************************)
HttpIdle == [last |-> "none", inflight |-> 0, unspaced |-> FALSE]

\* the blocking call starts: requests.get(...) / subprocess / page.goto
HttpSend(h) ==
    [h EXCEPT !.inflight = h.inflight + 1,
              !.unspaced = h.unspaced \/ h.last = "request",
              !.last = "request"]

\* the blocking call returns (a response or an exception)
HttpReturn(h) == [h EXCEPT !.inflight = h.inflight - 1]

\* one whole blocking request
HttpRequest(h) == HttpReturn(HttpSend(h))

\* time.sleep(...)
HttpSleep(h) == [h EXCEPT !.last = "sleep"]

(***************************************************************************)
(* TeamConfig.get_config and ScraperFactory.create_scraper on one team id  *)
(***************************************************************************)
MaxTeamId == 400

ListedTeamIds ==
    DOMAIN NUXT_JS_TEAMS \cup S_PERSON_CARD_TEAMS \cup DOMAIN TABLE_BASED_TEAMS
    \cup DOMAIN PRESTOSPORTS_SEASON_FIRST \cup DOMAIN CUSTOM_JS_TEAMS
    \cup DOMAIN VUE_DATA_TEAMS

TeamIdInputs == ListedTeamIds \cup (0..MaxTeamId)

NoConfig == [type |-> "<none>"]
NoScraper == [class |-> "<none>"]

DispatchIdle ==
    /\ d_pc = "idle"
    /\ d_team_id = 0
    /\ d_config = NoConfig
    /\ d_scraper = NoScraper

RosterIdle ==
    /\ main_pc = "idle"
    /\ m_pc = "idle"
    /\ args = [entity_type |-> "player", use_playwright |-> FALSE,
               teams |-> {}, team |-> 0, url |-> FALSE]
    /\ PLAYWRIGHT_AVAILABLE = FALSE
    /\ teams_data = <<>>
    /\ entity_type = "player"
    /\ team_ids = {}
    /\ teams = <<>>
    /\ idx = 1
    /\ players = 0
    /\ all_players = <<>>
    /\ zero_player_teams = <<>>
    /\ failed_year_check_teams = <<>>
    /\ attempts = <<>>

InitDispatch ==
    /\ d_pc = "config"
    /\ d_team_id \in TeamIdInputs
    /\ d_config = NoConfig
    /\ d_scraper = NoScraper

\* config = TeamConfig.get_config(team['ncaa_id'])
GetConfig ==
    /\ d_pc = "config"
    /\ d_config' = get_config(d_team_id)
    /\ d_pc' = "factory"
    /\ UNCHANGED <<d_team_id, d_scraper, notDispatch>>

\* scraper = ScraperFactory.create_scraper(config['type'], entity_type=...)
CreateScraper ==
    /\ d_pc = "factory"
    /\ \E etype \in ENTITY_CONFIGS :
          d_scraper' = create_scraper(d_config.type, etype, FALSE)
    /\ d_pc' = "built"
    /\ UNCHANGED <<d_team_id, d_config, notDispatch>>

NextDispatch == GetConfig \/ CreateScraper

(***************************************************************************)
(* RosterManager (rosters.py).  A team of teams.json is its ncaa_id and    *)
(* whether it has a "url" key.  The run's teams are drawn from one team    *)
(* id per strategy.                                                        *)
(***************************************************************************)
MaxTeams == 2

\* 1: in no table (standard), 5: TABLE_BASED_TEAMS, 71: NUXT_JS_TEAMS,
\* 72: VUE_DATA_TEAMS
RunTeamIds == {1, 5, 71, 72}

TeamRecords ==
    {[ncaa_id |-> id, has_url |-> TRUE] : id \in RunTeamIds}
    \cup {[ncaa_id |-> 5, has_url |-> FALSE]}

\* RosterManager.get_teams; team_ids = {} stands for None or an empty list,
\* which `if team_ids:` treats alike.
get_teams(ids) ==
    LET teams_with_urls ==
            FilterSeq(teams_data, {i \in 1..Len(teams_data) : teams_data[i].has_url})
    IN IF ids # {}
       THEN FilterSeq(teams_with_urls,
                      {i \in 1..Len(teams_with_urls) : teams_with_urls[i].ncaa_id \in ids})
       ELSE teams_with_urls

\* What the scraper drives the page with.
Engine(scraper) ==
    IF scraper.class = "JavaScriptScraper"
    THEN (IF scraper.use_playwright THEN "playwright" ELSE "shot-scraper")
    ELSE "requests"

\* scrape_team_roster, lines 3109-3110: the configuration and the scraper of
\* a team.  The call of create_scraper passes no use_playwright keyword, so
\* kwargs.get('use_playwright', False) is False.
TeamScraper(team, etype) ==
    create_scraper(get_config(team.ncaa_id).type, etype, FALSE)

\* One entry of the log of teams taken by scrape_team_roster: result is
\* "players", "empty" ([] returned), "error" (scrape_roster raised, caught
\* inside scrape_team_roster) or "raised" (the exception left it).
Attempt(team, etype, result) ==
    LET scraper == TeamScraper(team, etype)
    IN [team |-> team.ncaa_id, entity |-> etype,
        type |-> get_config(team.ncaa_id).type,
        class |-> IF result = "raised" THEN "<none>" ELSE scraper.class,
        engine |-> IF result = "raised" THEN "<none>" ELSE Engine(scraper),
        result |-> result]

\* The `break` a handler could have had in place of `continue`.
ExceptBreak == Len(teams) + 1

\* scrape_multiple_teams, lines 3171-3178: the handler ends with `continue`,
\* the loop goes on with the next team.
ExceptContinue == idx + 1

\* A new RosterManager starts a call of scrape_multiple_teams.
CallScrapeMultiple(etype, ids) ==
    /\ entity_type' = etype
    /\ team_ids' = ids
    /\ teams' = get_teams(ids)
    /\ idx' = 1
    /\ players' = 0
    /\ all_players' = <<>>
    /\ zero_player_teams' = <<>>
    /\ failed_year_check_teams' = <<>>
    /\ m_pc' = "loop"

\* players = self.scrape_team_roster(team, season); all_players.extend(players)
\* scraper.scrape_roster returns players, returns [], or raises inside the
\* try of scrape_team_roster, which logs and returns [].
ScrapeTeamRoster ==
    /\ m_pc = "loop"
    /\ idx <= Len(teams)
    /\ TeamScraper(teams[idx], entity_type) # KeyError
    /\ \E result \in {"players", "empty", "error"} :
          /\ players' = (IF result = "players" THEN 1 ELSE 0)
          /\ all_players' =
                (IF result = "players"
                 THEN Append(all_players, [team_id |-> teams[idx].ncaa_id,
                                           entity |-> entity_type])
                 ELSE all_players)
          /\ attempts' = Append(attempts, Attempt(teams[idx], entity_type, result))
    /\ http' = HttpRequest(http)
    /\ m_pc' = "verify"
    /\ UNCHANGED <<notRoster, main_pc, args, PLAYWRIGHT_AVAILABLE, teams_data, entity_type,
                   team_ids, teams, idx, zero_player_teams, failed_year_check_teams>>

\* An exception leaves scrape_team_roster before its try (the scraper cannot
\* be built): the handler of scrape_multiple_teams records the team in
\* zero_player_teams and continues.
ScrapeTeamRosterRaises ==
    /\ m_pc = "loop"
    /\ idx <= Len(teams)
    /\ attempts' = Append(attempts, Attempt(teams[idx], entity_type, "raised"))
    /\ zero_player_teams' = Append(zero_player_teams, teams[idx].ncaa_id)
    /\ idx' = ExceptContinue
    /\ UNCHANGED <<notRoster, main_pc, m_pc, args, PLAYWRIGHT_AVAILABLE, teams_data, entity_type,
                   team_ids, teams, players, all_players, failed_year_check_teams,
                   http>>

\* year_check_failed = not self._verify_team_season(team, season), and the
\* bookkeeping after it.  _verify_team_season fetches the roster page and
\* returns True when the fetch or the check raises.
VerifyTeamSeason ==
    /\ m_pc = "verify"
    /\ \E year_ok \in BOOLEAN :
          /\ failed_year_check_teams' =
                (IF ~year_ok THEN Append(failed_year_check_teams, teams[idx].ncaa_id)
                 ELSE failed_year_check_teams)
          /\ zero_player_teams' =
                (IF players = 0 /\ year_ok
                 THEN Append(zero_player_teams, teams[idx].ncaa_id)
                 ELSE zero_player_teams)
    /\ http' = HttpRequest(http)
    /\ idx' = idx + 1
    /\ m_pc' = "loop"
    /\ UNCHANGED <<notRoster, main_pc, args, PLAYWRIGHT_AVAILABLE, teams_data, entity_type,
                   team_ids, teams, players, all_players, attempts>>

\* return all_players
ReturnAllPlayers ==
    /\ m_pc = "loop"
    /\ idx > Len(teams)
    /\ m_pc' = "returned"
    /\ UNCHANGED <<notRoster, main_pc, args, PLAYWRIGHT_AVAILABLE, teams_data, entity_type,
                   team_ids, teams, idx, players, all_players, zero_player_teams,
                   failed_year_check_teams, attempts, http>>

\* A caller holding a RosterManager for players or coaches calls
\* scrape_multiple_teams(season, team_ids).
InitScrape ==
    /\ main_pc = "caller"
    /\ args = [entity_type |-> "player", use_playwright |-> FALSE,
               teams |-> {}, team |-> 0, url |-> FALSE]
    /\ PLAYWRIGHT_AVAILABLE \in BOOLEAN
    /\ teams_data \in SeqsUpTo(TeamRecords, MaxTeams)
    /\ entity_type \in ENTITY_CONFIGS
    /\ team_ids \in SUBSET {5, 71}
    /\ teams = get_teams(team_ids)
    /\ idx = 1
    /\ players = 0
    /\ all_players = <<>>
    /\ zero_player_teams = <<>>
    /\ failed_year_check_teams = <<>>
    /\ attempts = <<>>
    /\ m_pc = "loop"

NextScrape ==
    \/ ScrapeTeamRoster
    \/ ScrapeTeamRosterRaises
    \/ VerifyTeamSeason
    \/ ReturnAllPlayers

(***************************************************************************)
(* main of rosters.py.  args.teams = {} stands for no -teams (or an empty  *)
(* one) and args.team = 0 for no -team: the code tests both for truth.     *)
(***************************************************************************)
ArgTeamIds == {5, 71}

Args ==
    [entity_type : {"player", "coach", "all"},
     use_playwright : BOOLEAN,
     teams : SUBSET ArgTeamIds,
     team : {0} \cup ArgTeamIds,
     url : BOOLEAN]

InitMain ==
    /\ main_pc = "start"
    /\ m_pc = "idle"
    /\ args \in Args
    /\ PLAYWRIGHT_AVAILABLE \in BOOLEAN
    /\ teams_data \in SeqsUpTo(TeamRecords, MaxTeams)
    /\ entity_type = "player"
    /\ team_ids = {}
    /\ teams = <<>>
    /\ idx = 1
    /\ players = 0
    /\ all_players = <<>>
    /\ zero_player_teams = <<>>
    /\ failed_year_check_teams = <<>>
    /\ attempts = <<>>

\* lines 3349-3356: the team record of the -team/-url case
team_data ==
    [ncaa_id |-> args.team, has_url |-> TRUE]

\* `if args.url and args.team:` with a manager of args.entity_type;
\* players = manager.scrape_team_roster(team_data, args.season).  The scraper
\* is built before the try of scrape_team_roster, so a KeyError of
\* BaseScraper.__init__ ends main.
MainSingleScrape ==
    /\ main_pc = "start"
    /\ args.url /\ args.team # 0
    /\ entity_type' = args.entity_type
    /\ teams' = <<team_data>>
    /\ idx' = 1
    /\ IF TeamScraper(team_data, args.entity_type) = KeyError
       THEN /\ attempts' = Append(attempts,
                                  Attempt(team_data, args.entity_type, "raised"))
            /\ main_pc' = "crashed"
            /\ UNCHANGED <<players, all_players, http>>
       ELSE /\ \E result \in {"players", "empty", "error"} :
                  /\ players' = (IF result = "players" THEN 1 ELSE 0)
                  /\ all_players' =
                        (IF result = "players"
                         THEN <<[team_id |-> args.team, entity |-> args.entity_type]>>
                         ELSE <<>>)
                  /\ attempts' = Append(attempts,
                                        Attempt(team_data, args.entity_type, result))
            /\ http' = HttpRequest(http)
            /\ main_pc' = "single_verify"
    /\ UNCHANGED <<notRoster, m_pc, args, PLAYWRIGHT_AVAILABLE, teams_data, team_ids,
                   zero_player_teams, failed_year_check_teams>>

\* lines 3360-3388: the year check of the single team, the bookkeeping, the
\* output and `return`
MainSingleVerify ==
    /\ main_pc = "single_verify"
    /\ \E year_ok \in BOOLEAN :
          /\ failed_year_check_teams' =
                (IF ~year_ok THEN <<args.team>> ELSE <<>>)
          /\ zero_player_teams' =
                (IF players = 0 /\ year_ok THEN <<args.team>> ELSE <<>>)
    /\ http' = HttpRequest(http)
    /\ main_pc' = "done"
    /\ UNCHANGED <<notRoster, m_pc, args, PLAYWRIGHT_AVAILABLE, teams_data, entity_type, team_ids,
                   teams, idx, players, all_players, attempts>>

\* lines 3391-3395
MainTeamIds ==
    IF args.teams # {} THEN args.teams
    ELSE IF args.team # 0 THEN {args.team}
    ELSE {}

\* lines 3398-3404: --entity-type all, the players' pass
MainScrapePlayers ==
    /\ main_pc = "start"
    /\ ~(args.url /\ args.team # 0)
    /\ args.entity_type = "all"
    /\ CallScrapeMultiple("player", MainTeamIds)
    /\ main_pc' = "players"
    /\ UNCHANGED <<notRoster, args, PLAYWRIGHT_AVAILABLE, teams_data, attempts, http>>

\* lines 3405-3420: save_to_csv of the players, then the coaches' pass
MainScrapeCoaches ==
    /\ main_pc = "players"
    /\ m_pc = "returned"
    /\ CallScrapeMultiple("coach", MainTeamIds)
    /\ main_pc' = "coaches"
    /\ UNCHANGED <<notRoster, args, PLAYWRIGHT_AVAILABLE, teams_data, attempts, http>>

\* lines 3444-3446: one entity type
MainScrapeOne ==
    /\ main_pc = "start"
    /\ ~(args.url /\ args.team # 0)
    /\ args.entity_type # "all"
    /\ CallScrapeMultiple(args.entity_type, MainTeamIds)
    /\ main_pc' = "one"
    /\ UNCHANGED <<notRoster, args, PLAYWRIGHT_AVAILABLE, teams_data, attempts, http>>

\* the CSV files are written and main returns
MainReturn ==
    /\ main_pc \in {"coaches", "one"}
    /\ m_pc = "returned"
    /\ main_pc' = "done"
    /\ UNCHANGED <<notRoster, m_pc, args, PLAYWRIGHT_AVAILABLE, teams_data, entity_type, team_ids,
                   teams, idx, players, all_players, zero_player_teams,
                   failed_year_check_teams, attempts, http>>

NextMain ==
    \/ MainSingleScrape
    \/ MainSingleVerify
    \/ MainScrapePlayers
    \/ MainScrapeCoaches
    \/ MainScrapeOne
    \/ MainReturn
    \/ ScrapeTeamRoster
    \/ ScrapeTeamRosterRaises
    \/ VerifyTeamSeason
    \/ ReturnAllPlayers

(***************************************************************************)
(* process_team_files (ncaa/stats/team_ids.py): for each input file, for   *)
(* each row, one requests.get; sleep(1) is the last statement of the try,  *)
(* so a row whose request or parse raises goes to the handler and is not   *)
(* followed by a sleep.                                                    *)
(***************************************************************************)
MaxFiles == 2
MaxRows == 2

TeamIdsIdle ==
    /\ ti_pc = "idle"
    /\ csv_files = <<>>
    /\ ti_file = 1
    /\ ti_row = 1
    /\ rows_to_write = <<>>
    /\ output_files = <<>>

InitTeamIds ==
    /\ ti_pc = "files"
    /\ csv_files \in SeqsUpTo(0..MaxRows, MaxFiles)
    /\ ti_file = 1
    /\ ti_row = 1
    /\ rows_to_write = <<>>
    /\ output_files = <<>>

\* for input_file in csv_files: ... rows_to_write = []; open the reader
TI_OpenFile ==
    /\ ti_pc = "files"
    /\ ti_file <= Len(csv_files)
    /\ rows_to_write' = <<>>
    /\ ti_row' = 1
    /\ ti_pc' = "rows"
    /\ UNCHANGED <<csv_files, ti_file, output_files, http, notTeamIds>>

\* response = requests.get(row['url'], headers=headers): the call is made
TI_Get ==
    /\ ti_pc = "rows"
    /\ ti_row <= csv_files[ti_file]
    /\ http' = HttpSend(http)
    /\ ti_pc' = "get"
    /\ UNCHANGED <<csv_files, ti_file, ti_row, rows_to_write, output_files, notTeamIds>>

\* the try runs to its end: the row is kept with its master_team_id (or ''
\* when the page has no history link), then sleep(1)
TI_RowDone ==
    /\ ti_pc = "get"
    /\ \E master_team_id \in {"id", ""} :
          rows_to_write' = Append(rows_to_write, master_team_id)
    /\ http' = HttpSleep(HttpReturn(http))
    /\ ti_row' = ti_row + 1
    /\ ti_pc' = "rows"
    /\ UNCHANGED <<csv_files, ti_file, output_files, notTeamIds>>

\* except Exception: the row is kept with an empty master_team_id
TI_RowFails ==
    /\ ti_pc = "get"
    /\ rows_to_write' = Append(rows_to_write, "")
    /\ http' = HttpReturn(http)
    /\ ti_row' = ti_row + 1
    /\ ti_pc' = "rows"
    /\ UNCHANGED <<csv_files, ti_file, output_files, notTeamIds>>

\* the reader is exhausted: the output file is written
TI_WriteFile ==
    /\ ti_pc = "rows"
    /\ ti_row > csv_files[ti_file]
    /\ output_files' = Append(output_files, rows_to_write)
    /\ ti_file' = ti_file + 1
    /\ ti_pc' = "files"
    /\ UNCHANGED <<csv_files, ti_row, rows_to_write, http, notTeamIds>>

TI_Return ==
    /\ ti_pc = "files"
    /\ ti_file > Len(csv_files)
    /\ ti_pc' = "done"
    /\ UNCHANGED <<csv_files, ti_file, ti_row, rows_to_write, output_files, http,
                   notTeamIds>>

NextTeamIds ==
    \/ TI_OpenFile
    \/ TI_Get
    \/ TI_RowDone
    \/ TI_RowFails
    \/ TI_WriteFile
    \/ TI_Return

(***************************************************************************)
(* scrape_all_games (fiba/player_game.py): for each game,                  *)
(* scrape_player_stats issues a first GET without redirects and then the   *)
(* GET of the final URL; it returns None on any exception.  The loop       *)
(* sleeps after every game but the last.                                   *)
(***************************************************************************)
MaxGames == 3

PlayerGameIdle ==
    /\ pg_pc = "idle"
    /\ game_data = 0
    /\ pg_i = 0
    /\ all_player_stats = <<>>

InitPlayerGame ==
    /\ pg_pc = "loop"
    /\ game_data \in 0..MaxGames
    /\ pg_i = 0
    /\ all_player_stats = <<>>

\* lines 211-213: if i < len(game_data) - 1: time.sleep(delay)
DelayUnlessLast(h) ==
    IF pg_i < game_data - 1 THEN HttpSleep(h) ELSE h

\* initial_response = requests.get(base_url, allow_redirects=False)
PG_InitialGet ==
    /\ pg_pc = "loop"
    /\ pg_i < game_data
    /\ http' = HttpSend(http)
    /\ pg_pc' = "initial"
    /\ UNCHANGED <<game_data, pg_i, all_player_stats, notPlayerGame>>

\* the first GET raises: scrape_player_stats returns None, no records
PG_InitialFails ==
    /\ pg_pc = "initial"
    /\ http' = DelayUnlessLast(HttpReturn(http))
    /\ pg_i' = pg_i + 1
    /\ pg_pc' = "loop"
    /\ UNCHANGED <<game_data, all_player_stats, notPlayerGame>>

\* the first GET returns (a redirect, a 200 or another status):
\* response = requests.get(final_base_url)
PG_FinalGet ==
    /\ pg_pc = "initial"
    /\ http' = HttpSend(HttpReturn(http))
    /\ pg_pc' = "final"
    /\ UNCHANGED <<game_data, pg_i, all_player_stats, notPlayerGame>>

\* the second GET returns or raises; found: the page gave player records
PG_FinalReturns ==
    /\ pg_pc = "final"
    /\ \E found \in BOOLEAN :
          all_player_stats' =
              (IF found THEN Append(all_player_stats, pg_i) ELSE all_player_stats)
    /\ http' = DelayUnlessLast(HttpReturn(http))
    /\ pg_i' = pg_i + 1
    /\ pg_pc' = "loop"
    /\ UNCHANGED <<game_data, notPlayerGame>>

\* return all_player_stats
PG_Return ==
    /\ pg_pc = "loop"
    /\ pg_i >= game_data
    /\ pg_pc' = "done"
    /\ UNCHANGED <<game_data, pg_i, all_player_stats, http, notPlayerGame>>

NextPlayerGame ==
    \/ PG_InitialGet
    \/ PG_InitialFails
    \/ PG_FinalGet
    \/ PG_FinalReturns
    \/ PG_Return

\* The three scraping loops: one of them runs.
InitLoops ==
    \/ InitScrape /\ TeamIdsIdle /\ PlayerGameIdle
    \/ RosterIdle /\ InitTeamIds /\ PlayerGameIdle
    \/ RosterIdle /\ TeamIdsIdle /\ InitPlayerGame

NextLoops ==
    \/ ScrapeTeamRoster
    \/ ScrapeTeamRosterRaises
    \/ VerifyTeamSeason
    \/ ReturnAllPlayers
    \/ TI_OpenFile
    \/ TI_Get
    \/ TI_RowDone
    \/ TI_RowFails
    \/ TI_WriteFile
    \/ TI_Return
    \/ PG_InitialGet
    \/ PG_InitialFails
    \/ PG_FinalGet
    \/ PG_FinalReturns
    \/ PG_Return

(***************************************************************************)
(* Requests that fail.  r_log is the sequence of the requests issued       *)
(* (what was asked for, and whether it succeeded) and the sleeps taken.    *)
(***************************************************************************)
MaxPages == 2
MaxRateLimits == 2
MaxLinks == 2

Request(item, ok) == [kind |-> "request", item |-> item, ok |-> ok, secs |-> 0]

Sleep(secs) == [kind |-> "sleep", item |-> <<>>, ok |-> TRUE, secs |-> secs]

RECURSIVE TrailingFailures(_)
\* the failed requests at the end of the log, sleeps between them skipped
TrailingFailures(log) ==
    IF log = <<>> THEN 0
    ELSE LET last == log[Len(log)]
             front == SubSeq(log, 1, Len(log) - 1)
         IN IF last.kind = "sleep" THEN TrailingFailures(front)
            ELSE IF last.ok THEN 0
            ELSE 1 + TrailingFailures(front)

\* A backoff: the wait doubles with every failure in a row.
RateLimitBackoff == 15 * 60 * (2 ^ TrailingFailures(r_log))

\* limit_handled, line 275: time.sleep(15 * 60)
RateLimitWait == 15 * 60

RetryIdle ==
    /\ r_pc = "idle"
    /\ tweepy_v3 = TRUE
    /\ cursor_pages = 0
    /\ cursor_page = 1
    /\ link_ls = <<>>
    /\ gp_a = 1
    /\ all_tables = <<>>
    /\ r_log = <<>>

(***************************************************************************)
(* limit_handled(cursor): while True: try: yield next(cursor)              *)
(*                        except tweepy.RateLimitError: time.sleep(15*60)  *)
(* A tweepy cursor whose request raised has not moved: the next call of    *)
(* next(cursor) asks for the same page.  The file uses the names of tweepy *)
(* 3.x (RateLimitError) and of 4.x (TooManyRequests); under 4.x evaluating *)
(* the except clause raises AttributeError.                                *)
(***************************************************************************)
InitLimitHandled ==
    /\ r_pc = "lh"
    /\ tweepy_v3 \in BOOLEAN
    /\ cursor_pages \in 0..MaxPages
    /\ cursor_page = 1
    /\ link_ls = <<>>
    /\ gp_a = 1
    /\ all_tables = <<>>
    /\ r_log = <<>>

\* next(cursor) returns a page, which is yielded
LH_Yield ==
    /\ r_pc = "lh"
    /\ cursor_page <= cursor_pages
    /\ r_log' = Append(r_log, Request(<<"cursor", cursor_page>>, TRUE))
    /\ cursor_page' = cursor_page + 1
    /\ UNCHANGED <<r_pc, tweepy_v3, cursor_pages, link_ls, gp_a, all_tables, notRetry>>

\* next(cursor) raises the rate-limit error: sleep, and around the loop
LH_RateLimited ==
    /\ r_pc = "lh"
    /\ cursor_page <= cursor_pages
    /\ tweepy_v3
    /\ TrailingFailures(r_log) < MaxRateLimits
    /\ r_log' = r_log \o <<Request(<<"cursor", cursor_page>>, FALSE),
                           Sleep(RateLimitWait)>>
    /\ UNCHANGED <<r_pc, tweepy_v3, cursor_pages, cursor_page, link_ls, gp_a,
                   all_tables, notRetry>>

\* next(cursor) raises another error, or the rate-limit error of tweepy 4.x
\* (the except clause itself raises): the exception leaves the generator
LH_Raises ==
    /\ r_pc = "lh"
    /\ cursor_page <= cursor_pages
    /\ r_log' = Append(r_log, Request(<<"cursor", cursor_page>>, FALSE))
    /\ r_pc' = "raised"
    /\ UNCHANGED <<tweepy_v3, cursor_pages, cursor_page, link_ls, gp_a, all_tables,
                   notRetry>>

\* the cursor is exhausted: StopIteration ends the generator
LH_Exhausted ==
    /\ r_pc = "lh"
    /\ cursor_page > cursor_pages
    /\ r_pc' = "done"
    /\ UNCHANGED <<tweepy_v3, cursor_pages, cursor_page, link_ls, gp_a, all_tables,
                   r_log, notRetry>>

(***************************************************************************)
(* get_players(link_ls) and get_boxscore(game_url)                         *)
(***************************************************************************)
InitGetPlayers ==
    /\ r_pc = "gp"
    /\ tweepy_v3 = TRUE
    /\ cursor_pages = 0
    /\ cursor_page = 1
    /\ link_ls \in SeqsUpTo({"link", "None"}, MaxLinks)
    /\ gp_a = 1
    /\ all_tables = <<>>
    /\ r_log = <<>>

\* if a == None: continue
GP_SkipNone ==
    /\ r_pc = "gp"
    /\ gp_a <= Len(link_ls)
    /\ link_ls[gp_a] = "None"
    /\ gp_a' = gp_a + 1
    /\ UNCHANGED <<r_pc, tweepy_v3, cursor_pages, cursor_page, link_ls, all_tables,
                   r_log, notRetry>>

\* get_boxscore: try: box_sc_p = requests.get(game_url).text succeeds
GP_PageOk ==
    /\ r_pc = "gp"
    /\ gp_a <= Len(link_ls)
    /\ link_ls[gp_a] # "None"
    /\ r_log' = Append(r_log, Request(<<"game", gp_a>>, TRUE))
    /\ r_pc' = "gp_ajax"
    /\ UNCHANGED <<tweepy_v3, cursor_pages, cursor_page, link_ls, gp_a, all_tables,
                   notRetry>>

\* get_boxscore: the first requests.get raises; except: the same
\* requests.get(game_url) once more, whose exception nothing catches
GP_PageRetried ==
    /\ r_pc = "gp"
    /\ gp_a <= Len(link_ls)
    /\ link_ls[gp_a] # "None"
    /\ \E ok \in BOOLEAN :
          /\ r_log' = r_log \o <<Request(<<"game", gp_a>>, FALSE),
                                 Request(<<"game", gp_a>>, ok)>>
          /\ r_pc' = (IF ok THEN "gp_ajax" ELSE "raised")
    /\ UNCHANGED <<tweepy_v3, cursor_pages, cursor_page, link_ls, gp_a, all_tables,
                   notRetry>>

\* get_boxscore: boxsc_p = requests.get(BASE_URL + data_dir).text and the
\* parsing; the table (or None) is appended and get_players sleeps a second
GP_BoxscoreDone ==
    /\ r_pc = "gp_ajax"
    /\ r_log' = r_log \o <<Request(<<"ajax", gp_a>>, TRUE), Sleep(1)>>
    /\ all_tables' = Append(all_tables, gp_a)
    /\ gp_a' = gp_a + 1
    /\ r_pc' = "gp"
    /\ UNCHANGED <<tweepy_v3, cursor_pages, cursor_page, link_ls, notRetry>>

\* get_boxscore: the page has no boxscore tab (AttributeError, printed and
\* raised again by get_players) or the second request raises
GP_BoxscoreRaises ==
    /\ r_pc = "gp_ajax"
    /\ \E requested \in BOOLEAN :
          r_log' = (IF requested
                    THEN Append(r_log, Request(<<"ajax", gp_a>>, FALSE))
                    ELSE r_log)
    /\ r_pc' = "raised"
    /\ UNCHANGED <<tweepy_v3, cursor_pages, cursor_page, link_ls, gp_a, all_tables,
                   notRetry>>

\* return all_tables
GP_Return ==
    /\ r_pc = "gp"
    /\ gp_a > Len(link_ls)
    /\ r_pc' = "done"
    /\ UNCHANGED <<tweepy_v3, cursor_pages, cursor_page, link_ls, gp_a, all_tables,
                   r_log, notRetry>>

InitRetry == InitLimitHandled \/ InitGetPlayers

NextRetry ==
    \/ LH_Yield
    \/ LH_RateLimited
    \/ LH_Raises
    \/ LH_Exhausted
    \/ GP_SkipNone
    \/ GP_PageOk
    \/ GP_PageRetried
    \/ GP_BoxscoreDone
    \/ GP_BoxscoreRaises
    \/ GP_Return

(***************************************************************************)
(* fetch_game_stats (ncaa/games/game_utils.py).  For every team and        *)
(* season: fetch_season (or, for team "539", the Playwright schedule       *)
(* page) in a try; on any exception fetch_season_playwright; on an         *)
(* exception of that, continue.  Each fetch_season* reads the season's     *)
(* game ids from the site and has parse_games fetch and write every game.  *)
(* A game id is the number in the link and the parameters that may follow  *)
(* it; a page lists each game once.                                        *)
(***************************************************************************)
MaxGameTeams == 2
MaxSeasons == 2
MaxSeasonGames == 2

NoId == "None"

GameIds == [num : 1..MaxSeasonGames, params : {"", "&x=1"}]

GameIdLists ==
    {l \in SeqsUpTo(GameIds, MaxSeasonGames) :
        \A i, j \in 1..Len(l) : i # j => l[i].num # l[j].num}

TeamsJson ==
    {l \in SeqsUpTo({"539", "1", "2"}, MaxGameTeams) :
        \A i, j \in 1..Len(l) : i # j => l[i] # l[j]}

\* write_json: game_id = str(game_id).split('&')[0]; filename = game_id + '.json'
Filename(game_id) == game_id.num

\* the file parse_games writes for a game: the working directory is
\* <slug>/<season> after the chdir calls
GameFile(game_id) == <<teams_json[g_team], g_season, Filename(game_id)>>

\* write_json opens the file with 'w' and dumps the JSON
write_json(w, file) ==
    IF file \in DOMAIN w THEN [w EXCEPT ![file] = w[file] + 1]
    ELSE [f \in DOMAIN w \cup {file} |-> IF f = file THEN 1 ELSE w[f]]

GamesIdle ==
    /\ g_pc = "idle"
    /\ g_id = NoId
    /\ teams_json = <<>>
    /\ seasons = 0
    /\ g_team = 1
    /\ g_season = 1
    /\ g_pass = "first"
    /\ game_ids = <<>>
    /\ g_game = 1
    /\ writes = <<>>

\* fetch_game_stats(id, seasons): with an id, the one team of teams.json
\* that has it (an IndexError when there is none); without, every team.
InitGames ==
    /\ g_pc = "season"
    /\ teams_json \in TeamsJson
    /\ g_id \in {NoId} \cup Range(teams_json)
    /\ seasons \in 1..MaxSeasons
    /\ g_team = (IF g_id = NoId THEN 1
                 ELSE CHOOSE i \in 1..Len(teams_json) : teams_json[i] = g_id)
    /\ g_season = 1
    /\ g_pass = "first"
    /\ game_ids = <<>>
    /\ g_game = 1
    /\ writes = <<>>

\* the loops' next step after a season is over: the next season, the next
\* team (no id given), or the end
AfterSeason ==
    IF g_season < seasons
        THEN [pc |-> "season", team |-> g_team, season |-> g_season + 1]
    ELSE IF g_id = NoId /\ g_team < Len(teams_json)
        THEN [pc |-> "season", team |-> g_team + 1, season |-> 1]
    ELSE [pc |-> "done", team |-> g_team, season |-> g_season]

GoOn(to) ==
    /\ g_pc' = to.pc
    /\ g_team' = to.team
    /\ g_season' = to.season
    /\ g_pass' = "first"
    /\ game_ids' = <<>>
    /\ g_game' = 1

Running == g_pc = "season" /\ g_team <= Len(teams_json)

\* try: fetch_season(...) (fetch_season_playwright_season for team "539"
\* when no id is given): the game ids are read
FG_FetchSeason ==
    /\ Running
    /\ \E ids \in GameIdLists : game_ids' = ids
    /\ g_game' = 1
    /\ g_pass' = "first"
    /\ g_pc' = "games"
    /\ UNCHANGED <<g_id, teams_json, seasons, g_team, g_season, writes, notGames>>

\* validate_season, the request for the season page or its parsing raises
FG_FetchSeasonRaises ==
    /\ Running
    /\ g_pc' = "fallback"
    /\ UNCHANGED <<g_id, teams_json, seasons, g_team, g_season, g_pass, game_ids,
                   g_game, writes, notGames>>

\* parse_games: game_json = fetch_game_json(domain, game_id);
\* write_json(game_id, game_json, season)
FG_WriteGame ==
    /\ g_pc = "games"
    /\ g_game <= Len(game_ids)
    /\ writes' = write_json(writes, GameFile(game_ids[g_game]))
    /\ g_game' = g_game + 1
    /\ UNCHANGED <<g_pc, g_id, teams_json, seasons, g_team, g_season, g_pass,
                   game_ids, notGames>>

\* parse_games: the request of fetch_game_json (or a chdir, or the open)
\* raises.  In the first pass the except of fetch_game_stats takes over; in
\* the fallback the inner except continues with the next season.
FG_GameRaises ==
    /\ g_pc = "games"
    /\ g_game <= Len(game_ids)
    /\ IF g_pass = "first"
       THEN /\ g_pc' = "fallback"
            /\ UNCHANGED <<g_team, g_season, g_pass, game_ids, g_game>>
       ELSE GoOn(AfterSeason)
    /\ UNCHANGED <<g_id, teams_json, seasons, writes, notGames>>

\* parse_games returns: every game of the season is written
FG_SeasonDone ==
    /\ g_pc = "games"
    /\ g_game > Len(game_ids)
    /\ GoOn(AfterSeason)
    /\ UNCHANGED <<g_id, teams_json, seasons, writes, notGames>>

\* except: try: fetch_season_playwright(...): the game ids are read again
FG_Fallback ==
    /\ g_pc = "fallback"
    /\ \E ids \in GameIdLists : game_ids' = ids
    /\ g_game' = 1
    /\ g_pass' = "fallback"
    /\ g_pc' = "games"
    /\ UNCHANGED <<g_id, teams_json, seasons, g_team, g_season, writes, notGames>>

\* except: continue
FG_FallbackRaises ==
    /\ g_pc = "fallback"
    /\ GoOn(AfterSeason)
    /\ UNCHANGED <<g_id, teams_json, seasons, writes, notGames>>

\* teams.json has no team: the loop over the teams has nothing to do
FG_NoTeams ==
    /\ g_pc = "season"
    /\ g_team > Len(teams_json)
    /\ g_pc' = "done"
    /\ UNCHANGED <<g_id, teams_json, seasons, g_team, g_season, g_pass, game_ids,
                   g_game, writes, notGames>>

NextGames ==
    \/ FG_FetchSeason
    \/ FG_FetchSeasonRaises
    \/ FG_WriteGame
    \/ FG_GameRaises
    \/ FG_SeasonDone
    \/ FG_Fallback
    \/ FG_FallbackRaises
    \/ FG_NoTeams

(***************************************************************************)
(* The coach databases.  load_coaching_histories creates the file anew     *)
(* (Database(db_file, recreate=True)), collects the records of every       *)
(* table and inserts them; insert_coaching_data opens the file as it is    *)
(* and inserts coach by coach.  A child table (positions, education,       *)
(* playing_career / playing) is modelled by the coach keys its rows carry: *)
(* the other columns and the rowid do not bear on the coach a row names.   *)
(* Of a coach's nested arrays only the length matters.                     *)
(***************************************************************************)
MaxCoaches == 2
MaxRuns == 2
MaxNested == 1

Urls == {"u1", "u2"}

Names == {"n1", "n2"}

CoachesData ==
    [url : Urls, name : Names, positions : 0..MaxNested,
     education : 0..MaxNested, playing_career : 0..MaxNested]

NoDb == <<>>

NoPk == "None"

Rows(d, table) == IF table \in DOMAIN d THEN d[table] ELSE {}

WithTable(d, table, rows) ==
    [t \in DOMAIN d \cup {table} |-> IF t = table THEN rows ELSE d[t]]

\* the primary key column of coaches: the one it was created with
PkOf(d, pk, created_pk) == IF "coaches" \in DOMAIN d THEN created_pk ELSE pk

\* table.insert(record, pk=..., replace=True): INSERT OR REPLACE
insert_replace(rows, record, pk) ==
    {r \in rows : r[pk] # record[pk]} \cup {record}

RECURSIVE insert_all_replace(_, _, _)
\* db['coaches'].insert_all(records, pk=..., replace=True)
insert_all_replace(rows, records, pk) ==
    IF records = <<>> THEN rows
    ELSE insert_all_replace(insert_replace(rows, Head(records), pk),
                            Tail(records), pk)

\* db[table].insert_all(records) of rows without a primary key: the rows are
\* added; no record, no table
insert_all(d, table, records) ==
    IF records = <<>> THEN d
    ELSE WithTable(d, table, Rows(d, table) \cup Range(records))

\* coach_record / coach: the columns of the coaches table
coach_record(coach) == [url |-> coach.url, name |-> coach.name]

\* a wrong key: the url where the name is meant
coach_name_from_url(coach) == coach.url

\* build_coach_db.py: coach_name = coach["name"]
coach_name(coach) == coach.name

\* load_coaching_histories.py: 'coach_url': coach['url']
coach_url(coach) == coach.url

\* the records one coach adds to a child table: one per entry of the array
child_records(key, n) == [i \in 1..n |-> key]

CoachDbIdle ==
    /\ c_pc = "idle"
    /\ c_loader = "none"
    /\ c_run = 0
    /\ c_read = 0
    /\ coaches_records = <<>>
    /\ positions_records = <<>>
    /\ education_records = <<>>
    /\ playing_career_records = <<>>
    /\ coaches_pk = NoPk
    /\ db = NoDb

\* load_coaching_histories: the database is recreated, the lists are empty
InitLoad ==
    /\ c_pc = "lch_loop"
    /\ c_loader = "load_coaching_histories"
    /\ c_run = 1
    /\ c_read = 0
    /\ coaches_records = <<>>
    /\ positions_records = <<>>
    /\ education_records = <<>>
    /\ playing_career_records = <<>>
    /\ coaches_pk = NoPk
    /\ db = NoDb

\* for coach in coaches_data: the records of the four tables
LCH_Coach ==
    /\ c_pc = "lch_loop"
    /\ c_read < MaxCoaches
    /\ \E coach \in CoachesData :
          /\ coaches_records' = Append(coaches_records, coach_record(coach))
          /\ positions_records' =
                positions_records \o child_records(coach_url(coach), coach.positions)
          /\ education_records' =
                education_records \o child_records(coach_url(coach), coach.education)
          /\ playing_career_records' =
                playing_career_records
                    \o child_records(coach_url(coach), coach.playing_career)
    /\ c_read' = c_read + 1
    /\ UNCHANGED <<c_pc, c_loader, c_run, coaches_pk, db, notCoachDb>>

\* the loop ends: coaches inserted with pk='url', replace=True; each child
\* table inserted (and given its foreign key) if it has records
LCH_Insert ==
    /\ c_pc = "lch_loop"
    /\ LET pk == PkOf(db, "url", coaches_pk)
           d0 == IF coaches_records = <<>> THEN db
                 ELSE WithTable(db, "coaches",
                        insert_all_replace(Rows(db, "coaches"), coaches_records, pk))
           d1 == insert_all(d0, "positions", positions_records)
           d2 == insert_all(d1, "education", education_records)
           d3 == insert_all(d2, "playing_career", playing_career_records)
       IN /\ db' = d3
          /\ coaches_pk' = (IF coaches_records = <<>> THEN coaches_pk ELSE pk)
    /\ c_pc' = "lch_index"
    /\ UNCHANGED <<c_loader, c_run, c_read, coaches_records, positions_records,
                   education_records, playing_career_records, notCoachDb>>

\* create_index on the four tables, the summary: the load completes
LCH_CreateIndexes ==
    /\ c_pc = "lch_index"
    /\ {"positions", "education", "playing_career", "coaches"} \subseteq DOMAIN db
    /\ c_pc' = "done"
    /\ UNCHANGED <<c_loader, c_run, c_read, coaches_records, positions_records,
                   education_records, playing_career_records, coaches_pk, db,
                   notCoachDb>>

\* create_index on a table that was not created (no coach has a position,
\* an education or a playing career): the SQL error ends the load
LCH_CreateIndexRaises ==
    /\ c_pc = "lch_index"
    /\ ~({"positions", "education", "playing_career", "coaches"} \subseteq DOMAIN db)
    /\ c_pc' = "crashed"
    /\ UNCHANGED <<c_loader, c_run, c_read, coaches_records, positions_records,
                   education_records, playing_career_records, coaches_pk, db,
                   notCoachDb>>

\* the script is run again on the same file: recreate=True empties it
LCH_Rerun ==
    /\ c_pc \in {"done", "crashed"}
    /\ c_loader = "load_coaching_histories"
    /\ c_run < MaxRuns
    /\ c_run' = c_run + 1
    /\ c_pc' = "lch_loop"
    /\ c_read' = 0
    /\ coaches_records' = <<>>
    /\ positions_records' = <<>>
    /\ education_records' = <<>>
    /\ playing_career_records' = <<>>
    /\ coaches_pk' = NoPk
    /\ db' = NoDb
    /\ UNCHANGED <<c_loader, notCoachDb>>

\* insert_coaching_data on a file that does not exist yet
InitInsert ==
    /\ c_pc = "icd_loop"
    /\ c_loader = "insert_coaching_data"
    /\ c_run = 1
    /\ c_read = 0
    /\ coaches_records = <<>>
    /\ positions_records = <<>>
    /\ education_records = <<>>
    /\ playing_career_records = <<>>
    /\ coaches_pk = NoPk
    /\ db = NoDb

\* for coach_data in json_data: the coach is inserted with pk="name",
\* replace=True, then its positions, education and playing career
ICD_Coach ==
    /\ c_pc = "icd_loop"
    /\ c_read < MaxCoaches
    /\ \E coach_data \in CoachesData :
          LET pk == PkOf(db, "name", coaches_pk)
              d0 == WithTable(db, "coaches",
                        insert_replace(Rows(db, "coaches"), coach_record(coach_data), pk))
              d1 == insert_all(d0, "positions",
                        child_records(coach_name(coach_data), coach_data.positions))
              d2 == insert_all(d1, "education",
                        child_records(coach_name(coach_data), coach_data.education))
              d3 == insert_all(d2, "playing",
                        child_records(coach_name(coach_data), coach_data.playing_career))
          IN /\ db' = d3
             /\ coaches_pk' = pk
    /\ c_read' = c_read + 1
    /\ UNCHANGED <<c_pc, c_loader, c_run, coaches_records, positions_records,
                   education_records, playing_career_records, notCoachDb>>

\* the loop ends; add_foreign_key on the three child tables: the load
\* completes
ICD_AddForeignKeys ==
    /\ c_pc = "icd_loop"
    /\ {"positions", "education", "playing", "coaches"} \subseteq DOMAIN db
    /\ c_pc' = "done"
    /\ UNCHANGED <<c_loader, c_run, c_read, coaches_records, positions_records,
                   education_records, playing_career_records, coaches_pk, db,
                   notCoachDb>>

\* the loop ends; add_foreign_key on a table that does not exist raises
ICD_AddForeignKeyRaises ==
    /\ c_pc = "icd_loop"
    /\ ~({"positions", "education", "playing", "coaches"} \subseteq DOMAIN db)
    /\ c_pc' = "crashed"
    /\ UNCHANGED <<c_loader, c_run, c_read, coaches_records, positions_records,
                   education_records, playing_career_records, coaches_pk, db,
                   notCoachDb>>

\* the script is run again: the file is opened as the last run left it
ICD_Rerun ==
    /\ c_pc \in {"done", "crashed"}
    /\ c_loader = "insert_coaching_data"
    /\ c_run < MaxRuns
    /\ c_run' = c_run + 1
    /\ c_pc' = "icd_loop"
    /\ c_read' = 0
    /\ UNCHANGED <<c_loader, coaches_records, positions_records, education_records,
                   playing_career_records, coaches_pk, db, notCoachDb>>

InitCoachDb == InitLoad \/ InitInsert

NextCoachDb ==
    \/ LCH_Coach
    \/ LCH_Insert
    \/ LCH_CreateIndexes
    \/ LCH_CreateIndexRaises
    \/ LCH_Rerun
    \/ ICD_Coach
    \/ ICD_AddForeignKeys
    \/ ICD_AddForeignKeyRaises
    \/ ICD_Rerun

(***************************************************************************)
(* validate_season(season) (ncaa/games/game_utils.py).  A string is the    *)
(* sequence of its characters; the other arguments tried are None and      *)
(* integers.                                                               *)
(***************************************************************************)
MaxSeasonLen == 8

Newline == "\n"

Digits == {"0", "1", "2", "3", "4", "5", "6", "7", "8", "9"}

\* the characters the strings tried are made of
SeasonChars == {"0", "1", "9", "-", Newline}

SeasonInputs ==
    {[type |-> "str", chars |-> s, num |-> 0] : s \in SeqsUpTo(SeasonChars, MaxSeasonLen)}
        \cup {[type |-> "NoneType", chars |-> <<>>, num |-> 0]}
        \cup {[type |-> "int", chars |-> <<>>, num |-> n] : n \in {0, 202425}}

DigitValue(c) ==
    CASE c = "0" -> 0 [] c = "1" -> 1 [] c = "2" -> 2 [] c = "3" -> 3
      [] c = "4" -> 4 [] c = "5" -> 5 [] c = "6" -> 6 [] c = "7" -> 7
      [] c = "8" -> 8 [] c = "9" -> 9

RECURSIVE int(_)
\* int(s) of a string of digits
int(s) ==
    IF s = <<>> THEN 0
    ELSE 10 * int(SubSeq(s, 1, Len(s) - 1)) + DigitValue(s[Len(s)])

\* `not season`: None, 0 and the empty string are false
Falsy(x) ==
    \/ x.type = "NoneType"
    \/ x.type = "int" /\ x.num = 0
    \/ x.type = "str" /\ x.chars = <<>>

\* re.compile(r'^\d{4}-\d{2}$').match(s): four digits, a hyphen, two
\* digits, and the end of the string; `$` also matches just before a
\* newline that ends the string
season_pattern_match(s) ==
    /\ Len(s) \in {7, 8}
    /\ \A i \in {1, 2, 3, 4, 6, 7} : s[i] \in Digits
    /\ s[5] = "-"
    /\ Len(s) = 8 => s[8] = Newline

\* s[a:b] of Python (0-based, b excluded, cut at the end of the string)
Slice(s, a, b) == SubSeq(s, a + 1, IF b < Len(s) THEN b ELSE Len(s))

validate_season(x) ==
    IF Falsy(x) \/ x.type # "str" THEN "ValueError"
    ELSE IF ~season_pattern_match(x.chars) THEN "ValueError"
    ELSE LET start_year == int(Slice(x.chars, 0, 4))
             end_year_short == int(Slice(x.chars, 5, 7))
             expected_end == (start_year + 1) % 100
         IN IF end_year_short # expected_end THEN "ValueError" ELSE "True"

SeasonIdle ==
    /\ vs_pc = "idle"
    /\ season = [type |-> "NoneType", chars |-> <<>>, num |-> 0]
    /\ vs_result = "none"

InitSeason ==
    /\ vs_pc = "call"
    /\ season \in SeasonInputs
    /\ vs_result = "none"

\* return True
VS_Returns ==
    /\ vs_pc = "call"
    /\ validate_season(season) = "True"
    /\ vs_result' = "True"
    /\ vs_pc' = "returned"
    /\ UNCHANGED <<season, notSeason>>

\* raise ValueError(...)
VS_Raises ==
    /\ vs_pc = "call"
    /\ validate_season(season) = "ValueError"
    /\ vs_result' = "ValueError"
    /\ vs_pc' = "raised"
    /\ UNCHANGED <<season, notSeason>>

NextSeason ==
    \/ VS_Returns
    \/ VS_Raises

(***************************************************************************)
(* main of ncaa/coaches/extract_coaching_histories.py.  A coach is known   *)
(* by its key (name, team); of a record the model keeps the key and the    *)
(* three arrays.  An array of the existing file is empty or <<"old">>, an  *)
(* array the model extracts is empty or <<"new">>.                         *)
(***************************************************************************)
MaxBios == 2
MaxExisting == 2

TestLimit == 5

CoachKeys == {"A", "B"}

Fields == {"positions", "education", "playing_career"}

CoachRecord(key, positions, education, playing_career) ==
    [key |-> key, positions |-> positions, education |-> education,
     playing_career |-> playing_career]

ExistingRecords ==
    [key : CoachKeys, positions : {<<>>, <<"old">>}, education : {<<>>, <<"old">>},
     playing_career : {<<>>, <<"old">>}]

\* what extract_coaching_history gets from the model's answer: the three
\* arrays, all empty when the answer cannot be parsed
Extractions ==
    [positions : {<<>>, <<"new">>}, education : {<<>>, <<"new">>},
     playing_career : {<<>>, <<"new">>}]

HistoriesFiles ==
    {[found |-> FALSE, histories |-> <<>>]}
        \cup {[found |-> TRUE, histories |-> h] :
                h \in SeqsUpTo(ExistingRecords, MaxExisting)}

Args3 == [resume : BOOLEAN, only_empty : BOOLEAN, test : BOOLEAN]

\* a dict kept as the sequence of its items in insertion order
DictHas(d, key) == \E i \in 1..Len(d) : d[i].key = key

DictGet(d, key) == d[CHOOSE i \in 1..Len(d) : d[i].key = key]

DictSet(d, item) ==
    IF DictHas(d, item.key)
    THEN [i \in 1..Len(d) |-> IF d[i].key = item.key THEN item ELSE d[i]]
    ELSE Append(d, item)

RECURSIVE DictOf(_)
\* {(h['name'], h['team']): h for h in existing_histories}
DictOf(histories) ==
    IF histories = <<>> THEN <<>>
    ELSE DictSet(DictOf(SubSeq(histories, 1, Len(histories) - 1)),
                 histories[Len(histories)])

existing_lookup(a, existing) ==
    IF a.resume \/ a.only_empty THEN DictOf(existing.histories) ELSE <<>>

\* merge_coach_data(bio, existing_lookup.get(key))
merge_coach_data(bio, lookup) ==
    IF DictHas(lookup, bio)
    THEN LET existing == DictGet(lookup, bio)
         IN CoachRecord(bio, existing.positions, existing.education,
                        existing.playing_career)
    ELSE CoachRecord(bio, <<>>, <<>>, <<>>)

Merged(a, bios, existing) ==
    [i \in 1..Len(bios) |-> merge_coach_data(bios[i], existing_lookup(a, existing))]

\* [c for c in coaches if not c['positions']]: the places of those coaches
EmptyPositions(cs) == {i \in 1..Len(cs) : cs[i].positions = <<>>}

\* coaches_to_process: the filter on empty positions, the [:5] of --test
ToProcess(a, cs) ==
    LET filtered == IF a.only_empty \/ a.resume THEN FilterSeq(cs, EmptyPositions(cs))
                    ELSE cs
    IN IF a.test
       THEN SubSeq(filtered, 1, IF Len(filtered) < TestLimit THEN Len(filtered)
                                ELSE TestLimit)
       ELSE filtered

\* the final results list
Results(a, cs, processed) ==
    IF a.resume \/ a.only_empty
    THEN [i \in 1..Len(cs) |->
            IF DictHas(processed, cs[i].key) THEN DictGet(processed, cs[i].key)
            ELSE cs[i]]
    ELSE processed

ExtractIdle ==
    /\ e_pc = "idle"
    /\ e_args = [resume |-> FALSE, only_empty |-> FALSE, test |-> FALSE]
    /\ coaches_bios = <<>>
    /\ existing_histories = [found |-> FALSE, histories |-> <<>>]
    /\ coaches = <<>>
    /\ coaches_to_process = <<>>
    /\ e_i = 1
    /\ processed_coaches = <<>>
    /\ histories_file = [found |-> FALSE, histories |-> <<>>]

InitExtract ==
    /\ e_pc = "load"
    /\ e_args \in Args3
    /\ coaches_bios \in SeqsUpTo(CoachKeys, MaxBios)
    /\ existing_histories \in HistoriesFiles
    /\ coaches = <<>>
    /\ coaches_to_process = <<>>
    /\ e_i = 1
    /\ processed_coaches = <<>>
    /\ histories_file = existing_histories

\* --resume or --only-empty without coaching_histories.json: sys.exit(1)
EX_NoExisting ==
    /\ e_pc = "load"
    /\ e_args.resume \/ e_args.only_empty
    /\ ~existing_histories.found
    /\ e_pc' = "exit"
    /\ UNCHANGED <<e_args, coaches_bios, existing_histories, coaches,
                   coaches_to_process, e_i, processed_coaches, histories_file,
                   notExtract>>

\* the lookup, the merge of every biography, the filter and the test limit
EX_Merge ==
    /\ e_pc = "load"
    /\ (e_args.resume \/ e_args.only_empty) => existing_histories.found
    /\ LET cs == Merged(e_args, coaches_bios, existing_histories)
           todo == ToProcess(e_args, cs)
       IN /\ coaches' = cs
          /\ coaches_to_process' = todo
          /\ e_pc' = (IF Len(todo) = 0 THEN "returned" ELSE "process")
    /\ UNCHANGED <<e_args, coaches_bios, existing_histories, e_i, processed_coaches,
                   histories_file, notExtract>>

\* for i, coach in enumerate(coaches_to_process, 1):
\*     result = extract_coaching_history(...); processed_coaches[key] = result
EX_Extract ==
    /\ e_pc = "process"
    /\ e_i <= Len(coaches_to_process)
    /\ \E x \in Extractions :
          processed_coaches' =
              DictSet(processed_coaches,
                      CoachRecord(coaches_to_process[e_i].key, x.positions,
                                  x.education, x.playing_career))
    /\ e_i' = e_i + 1
    /\ UNCHANGED <<e_pc, e_args, coaches_bios, existing_histories, coaches,
                   coaches_to_process, histories_file, notExtract>>

\* the results list is built and dumped to coaching_histories.json
EX_Save ==
    /\ e_pc = "process"
    /\ e_i > Len(coaches_to_process)
    /\ histories_file' =
          [found |-> TRUE, histories |-> Results(e_args, coaches, processed_coaches)]
    /\ e_pc' = "saved"
    /\ UNCHANGED <<e_args, coaches_bios, existing_histories, coaches,
                   coaches_to_process, e_i, processed_coaches, notExtract>>

NextExtract ==
    \/ EX_NoExisting
    \/ EX_Merge
    \/ EX_Extract
    \/ EX_Save

(***************************************************************************)
(* main of ncaa/coaches/fetch_coach_bios.py: read_rows, filter_rows,       *)
(* process_rows (fetch_article on every row), write_json.  A row is a      *)
(* function from the columns of the CSV header to the values of the line.  *)
(***************************************************************************)
MaxCsvRows == 3
MaxLimit == 2

DemoRows == 5

CoachNames == {"a", "b"}

\* the headers tried: url is there, name and text may be
CsvHeaders == {{"url"} \cup h : h \in SUBSET {"name", "text"}}

CsvRow(columns, name, url) ==
    [c \in columns |-> CASE c = "url" -> url
                         [] c = "name" -> name
                         [] c = "text" -> "csv text"]

CsvRows(columns) == {CsvRow(columns, n, u) : n \in CoachNames, u \in {"", "u"}}

\* --names (the empty set for None or no name), --limit (given or None),
\* --demo, --shuffle
BiosArgs ==
    [names : SUBSET {"a"}, limit : {[given |-> FALSE, n |-> 0]}
                                    \cup {[given |-> TRUE, n |-> n] : n \in -1..MaxLimit},
     demo : BOOLEAN, shuffle : BOOLEAN]

\* row.get(column)
Get(row, column) == IF column \in DOMAIN row THEN row[column] ELSE "None"

\* read_rows: [dict(row) for row in reader if row.get("url")]
read_rows(rows) == FilterSeq(rows, {i \in 1..Len(rows) : Get(rows[i], "url") \notin {"", "None"}})

\* s[:n] of Python: the first n items, or all but the last -n
SliceTo(s, n) ==
    LET k == IF n >= 0 THEN (IF n < Len(s) THEN n ELSE Len(s))
             ELSE (IF Len(s) + n > 0 THEN Len(s) + n ELSE 0)
    IN SubSeq(s, 1, k)

\* the orders random.shuffle can leave a list in
Shuffles(s) ==
    {[i \in 1..Len(s) |-> s[p[i]]] :
        p \in {q \in [1..Len(s) -> 1..Len(s)] : \A i, j \in 1..Len(s) : q[i] = q[j] => i = j}}

\* filter_rows up to the shuffle: the rows the names select
NamesFilter(rows, names) ==
    IF names # {}
    THEN FilterSeq(rows, {i \in 1..Len(rows) : Get(rows[i], "name") \in names})
    ELSE rows

\* filter_rows after the shuffle: demo, else limit
demo_or_limit(filtered, limit, demo) ==
    IF demo THEN SliceTo(filtered, DemoRows)
    ELSE IF limit.given THEN SliceTo(filtered, limit.n)
    ELSE filtered

\* the results filter_rows can return
filter_rows(rows, names, limit, demo, shuffle) ==
    LET filtered == NamesFilter(rows, names)
    IN IF names # {} /\ filtered = <<>> THEN {<<>>}
       ELSE {demo_or_limit(f, limit, demo) :
                f \in (IF shuffle THEN Shuffles(filtered) ELSE {filtered})}

\* fetch_article: result = dict(row); result["text"] = article.text
fetch_article(row, text) ==
    [c \in DOMAIN row \cup {"text"} |-> IF c = "text" THEN text ELSE row[c]]

NotWritten == [written |-> FALSE, data |-> <<>>]

BiosIdle ==
    /\ b_pc = "idle"
    /\ b_args = [names |-> {}, limit |-> [given |-> FALSE, n |-> 0],
                 demo |-> FALSE, shuffle |-> FALSE]
    /\ csv_columns = {}
    /\ csv_rows = <<>>
    /\ b_rows = <<>>
    /\ b_idx = 1
    /\ processed_rows = <<>>
    /\ fetched = 0
    /\ bios_file = NotWritten

InitBios ==
    /\ b_pc = "read"
    /\ b_args \in BiosArgs
    /\ csv_columns \in CsvHeaders
    /\ csv_rows \in SeqsUpTo(CsvRows(csv_columns), MaxCsvRows)
    /\ b_rows = <<>>
    /\ b_idx = 1
    /\ processed_rows = <<>>
    /\ fetched = 0
    /\ bios_file = NotWritten

\* read_rows raises (no such file): return 1
FB_ReadFails ==
    /\ b_pc = "read"
    /\ b_pc' = "returned"
    /\ UNCHANGED <<b_args, csv_columns, csv_rows, b_rows, b_idx, processed_rows, fetched,
                   bios_file, notBios>>

\* rows = read_rows(csv_path); rows = filter_rows(...); if not rows: return 0
FB_Filter ==
    /\ b_pc = "read"
    /\ \E rows \in filter_rows(read_rows(csv_rows), b_args.names, b_args.limit,
                               b_args.demo, b_args.shuffle) :
          /\ b_rows' = rows
          /\ b_pc' = (IF rows = <<>> THEN "returned" ELSE "process")
    /\ UNCHANGED <<b_args, csv_columns, csv_rows, b_idx, processed_rows, fetched,
                   bios_file, notBios>>

\* process_rows: fetch_article returns, the record is appended
FB_Fetched ==
    /\ b_pc = "process"
    /\ b_idx <= Len(b_rows)
    /\ processed_rows' = Append(processed_rows,
                        [row |-> b_rows[b_idx],
                         json |-> fetch_article(b_rows[b_idx], "article text")])
    /\ fetched' = fetched + 1
    /\ b_idx' = b_idx + 1
    /\ UNCHANGED <<b_pc, b_args, csv_columns, csv_rows, b_rows, bios_file, notBios>>

\* process_rows: the download or the parse fails; logged, the row is skipped
FB_FetchFails ==
    /\ b_pc = "process"
    /\ b_idx <= Len(b_rows)
    /\ fetched' = fetched + 1
    /\ b_idx' = b_idx + 1
    /\ UNCHANGED <<b_pc, b_args, csv_columns, csv_rows, b_rows, processed_rows, bios_file,
                   notBios>>

\* write_json(results, output_path); return 0
FB_Write ==
    /\ b_pc = "process"
    /\ b_idx > Len(b_rows)
    /\ bios_file' = [written |-> TRUE, data |-> processed_rows]
    /\ b_pc' = "done"
    /\ UNCHANGED <<b_args, csv_columns, csv_rows, b_rows, b_idx, processed_rows, fetched,
                   notBios>>

NextBios ==
    \/ FB_ReadFails
    \/ FB_Filter
    \/ FB_Fetched
    \/ FB_FetchFails
    \/ FB_Write

(***************************************************************************)
(* convert_csv_to_json (ncaa/officials/convert.py).  A CSV value is the    *)
(* sequence of its characters.  The lines tried differ in date,            *)
(* home_fouls (standing for the six integer columns) and officials; the    *)
(* game_id of a line is its number in the file.                            *)
(***************************************************************************)
MaxCsvGames == 3

PyStr(chars) == [type |-> "str", chars |-> chars, num |-> 0]

PyInt(n) == [type |-> "int", chars |-> <<>>, num |-> n]

DateStrings ==
    {<<>>, <<"1", "/", "2", "/", "2", "0", "2", "3">>, <<"1", "/", "2">>}

FoulsStrings == {<<>>, <<"7">>, <<"0", "7">>}

OfficialsStrings ==
    {<<>>, <<"a", ",", "b">>, <<"a", ",", " ", "b", " ", ",", "c">>}

\* the decimal digits of a line number (below 10: one digit)
Digit1(n) == CHOOSE c \in Digits : DigitValue(c) = n

CsvGames(line) ==
    [game_id : {<<Digit1(line)>>}, date : DateStrings, home : {<<"H">>},
     home_fouls : FoulsStrings, home_technicals : {<<"0">>}, visitor : {<<"V">>},
     visitor_fouls : {<<"5">>}, visitor_technicals : {<<>>},
     officials : OfficialsStrings]

RECURSIVE split(_, _)
\* s.split(sep) for a separator of one character
split(s, sep) ==
    IF \A i \in 1..Len(s) : s[i] # sep THEN <<s>>
    ELSE LET at == CHOOSE i \in 1..Len(s) :
                     s[i] = sep /\ \A j \in 1..(i - 1) : s[j] # sep
         IN <<SubSeq(s, 1, at - 1)>> \o split(SubSeq(s, at + 1, Len(s)), sep)

RECURSIVE strip(_)
\* s.strip(): the blanks at both ends removed
strip(s) ==
    IF s = <<>> THEN s
    ELSE IF Head(s) = " " THEN strip(Tail(s))
    ELSE IF s[Len(s)] = " " THEN strip(SubSeq(s, 1, Len(s) - 1))
    ELSE s

RECURSIVE replace_double_space(_)
\* s.replace('  ', ' ')
replace_double_space(s) ==
    IF Len(s) < 2 THEN s
    ELSE IF s[1] = " " /\ s[2] = " "
         THEN <<" ">> \o replace_double_space(SubSeq(s, 3, Len(s)))
    ELSE <<s[1]>> \o replace_double_space(Tail(s))

Upper(c) == CASE c = "a" -> "A" [] c = "b" -> "B" [] c = "c" -> "C" [] OTHER -> c

\* s.title(): a letter that follows no letter is made upper case
title(s) ==
    [i \in 1..Len(s) |->
        IF i = 1 \/ s[i - 1] \in {" ", ","} THEN Upper(s[i]) ELSE s[i]]

\* [name.strip().replace('  ',' ').title() for name in officials_string.split(',')]
officials_array(officials_string) ==
    LET names == split(officials_string, ",")
    IN [i \in 1..Len(names) |-> title(replace_double_space(strip(names[i])))]

\* if row[field]: row[field] = int(row[field])
int_field(value) == IF value = <<>> THEN PyStr(value) ELSE PyInt(int(value))

\* s.zfill(2)
zfill2(s) == IF Len(s) = 0 THEN <<"0", "0">> ELSE IF Len(s) = 1 THEN <<"0">> \o s ELSE s

\* month, day, year = row['date'].split('/') raises unless there are three
date_splits(date) == date = <<>> \/ Len(split(date, "/")) = 3

\* f"{year}-{month}-{day}", or the empty date as it is
formatted_date(date) ==
    IF date = <<>> THEN date
    ELSE LET p == split(date, "/")
         IN p[3] \o <<"-">> \o zfill2(p[1]) \o <<"-">> \o zfill2(p[2])

\* a wrong key: the officials left out
dedup_tuple_without_officials(row) ==
    <<row.date, row.home, int_field(row.home_fouls), int_field(row.home_technicals),
      row.visitor, int_field(row.visitor_fouls), int_field(row.visitor_technicals),
      <<>>>>

\* dedup_tuple: the date and the officials as in the file, the integer
\* columns as converted
dedup_tuple(row) ==
    <<row.date, row.home, int_field(row.home_fouls), int_field(row.home_technicals),
      row.visitor, int_field(row.visitor_fouls), int_field(row.visitor_technicals),
      row.officials>>

\* the row appended to data
game(row) ==
    [game_id |-> int_field(row.game_id), date |-> formatted_date(row.date),
     home |-> row.home, home_fouls |-> int_field(row.home_fouls),
     home_technicals |-> int_field(row.home_technicals), visitor |-> row.visitor,
     visitor_fouls |-> int_field(row.visitor_fouls),
     visitor_technicals |-> int_field(row.visitor_technicals),
     officials |-> officials_array(row.officials)]

NoJson == [written |-> FALSE, games |-> <<>>]

ConvertIdle ==
    /\ cv_pc = "idle"
    /\ cv_input = <<>>
    /\ data = <<>>
    /\ seen_combinations = {}
    /\ duplicates_count = 0
    /\ json_file = NoJson

InitConvert ==
    /\ cv_pc = "rows"
    /\ cv_input = <<>>
    /\ data = <<>>
    /\ seen_combinations = {}
    /\ duplicates_count = 0
    /\ json_file = NoJson

\* for row in reader: a combination not seen before; the row is kept
CV_RowKept ==
    /\ cv_pc = "rows"
    /\ Len(cv_input) < MaxCsvGames
    /\ \E row \in CsvGames(Len(cv_input) + 1) :
          /\ date_splits(row.date)
          /\ dedup_tuple(row) \notin seen_combinations
          /\ cv_input' = Append(cv_input, row)
          /\ seen_combinations' = seen_combinations \cup {dedup_tuple(row)}
          /\ data' = Append(data, game(row))
    /\ UNCHANGED <<cv_pc, duplicates_count, json_file, notConvert>>

\* for row in reader: a combination seen before; counted and skipped
CV_RowDuplicate ==
    /\ cv_pc = "rows"
    /\ Len(cv_input) < MaxCsvGames
    /\ \E row \in CsvGames(Len(cv_input) + 1) :
          /\ date_splits(row.date)
          /\ dedup_tuple(row) \in seen_combinations
          /\ cv_input' = Append(cv_input, row)
    /\ duplicates_count' = duplicates_count + 1
    /\ UNCHANGED <<cv_pc, data, seen_combinations, json_file, notConvert>>

\* for row in reader: the date has not three parts; the ValueError ends the
\* function before anything is written
CV_RowRaises ==
    /\ cv_pc = "rows"
    /\ Len(cv_input) < MaxCsvGames
    /\ \E row \in CsvGames(Len(cv_input) + 1) :
          /\ ~date_splits(row.date)
          /\ cv_input' = Append(cv_input, row)
    /\ cv_pc' = "crashed"
    /\ UNCHANGED <<data, seen_combinations, duplicates_count, json_file, notConvert>>

\* the reader is exhausted: json.dump(data, jsonfile, indent=2)
CV_Write ==
    /\ cv_pc = "rows"
    /\ json_file' = [written |-> TRUE, games |-> data]
    /\ cv_pc' = "done"
    /\ UNCHANGED <<cv_input, data, seen_combinations, duplicates_count, notConvert>>

NextConvert ==
    \/ CV_RowKept
    \/ CV_RowDuplicate
    \/ CV_RowRaises
    \/ CV_Write

(***************************************************************************)
(* convert_officials_to_csv (ncaa/officials/official_days.py).  The values *)
(* of a game are strings, each the sequence of its characters; a missing   *)
(* key reads as the empty string (game.get(key, '')).                      *)
(***************************************************************************)
MaxJsonGames == 3

GameDates == {<<"1">>, <<"2">>}

Locations == {<<>>, <<" ">>, <<"G">>, <<"H">>}

Officials == {<<>>, <<" ">>, <<"a">>}

JsonGames ==
    [date : GameDates, start_time : {<<"7">>}, location : Locations,
     officials : SeqsUpTo(Officials, 2)]

\* only the empty string counts as missing
is_empty(value) == value = <<>>

\* not value or value.strip() == ''
is_missing(value) == value = <<>> \/ strip(value) = <<>>

\* record = (date, start_time, location, official)
record(g, official) ==
    [date |-> g.date, start_time |-> g.start_time, location |-> g.location,
     official |-> official]

\* the records one game adds to unique_records
game_records(g) ==
    IF is_missing(g.location) THEN {}
    ELSE {record(g, g.officials[i]) :
            i \in {j \in 1..Len(g.officials) : ~is_missing(g.officials[j])}}

RECURSIVE StrLess(_, _)
\* s < t for Python strings of digits
StrLess(s, t) ==
    IF t = <<>> THEN FALSE
    ELSE IF s = <<>> THEN TRUE
    ELSE IF Head(s) # Head(t) THEN DigitValue(Head(s)) < DigitValue(Head(t))
    ELSE StrLess(Tail(s), Tail(t))

\* key=lambda x: (x[0], x[1]) of one record below that of another
KeyLess(r, q) ==
    \/ StrLess(r.date, q.date)
    \/ r.date = q.date /\ StrLess(r.start_time, q.start_time)

\* sorted(unique_records, key=...): the records in an order of the keys;
\* records of equal key come in the order the set gives them
sorted_records(records) ==
    {s \in [1..Cardinality(records) -> records] :
        /\ \A i, j \in 1..Cardinality(records) : s[i] = s[j] => i = j
        /\ \A i, j \in 1..Cardinality(records) : i < j => ~KeyLess(s[j], s[i])}

NoCsv == [written |-> FALSE, rows |-> <<>>]

OfficialDaysIdle ==
    /\ od_pc = "idle"
    /\ od_read = 0
    /\ seen_entries = {}
    /\ unique_records = {}
    /\ csv_file = NoCsv

InitOfficialDays ==
    /\ od_pc = "games"
    /\ od_read = 0
    /\ seen_entries = {}
    /\ unique_records = {}
    /\ csv_file = NoCsv

\* for game in games_data: the location is missing or blank: continue
OD_GameSkipped ==
    /\ od_pc = "games"
    /\ od_read < MaxJsonGames
    /\ \E g \in JsonGames :
          /\ is_missing(g.location)
          /\ seen_entries' = seen_entries \cup {record(g, o) : o \in Range(g.officials)}
    /\ od_read' = od_read + 1
    /\ UNCHANGED <<od_pc, unique_records, csv_file, notOfficialDays>>

\* for game in games_data: a record is added for every official that is
\* not missing or blank
OD_Game ==
    /\ od_pc = "games"
    /\ od_read < MaxJsonGames
    /\ \E g \in JsonGames :
          /\ ~is_missing(g.location)
          /\ seen_entries' = seen_entries \cup {record(g, o) : o \in Range(g.officials)}
          /\ unique_records' = unique_records \cup game_records(g)
    /\ od_read' = od_read + 1
    /\ UNCHANGED <<od_pc, csv_file, notOfficialDays>>

\* the loop ends: the records are sorted and written under the header
OD_Write ==
    /\ od_pc = "games"
    /\ \E rows \in sorted_records(unique_records) :
          csv_file' = [written |-> TRUE, rows |-> rows]
    /\ od_pc' = "done"
    /\ UNCHANGED <<od_read, seen_entries, unique_records, notOfficialDays>>

NextOfficialDays ==
    \/ OD_GameSkipped
    \/ OD_Game
    \/ OD_Write

\* ---- SPECIFICATIONS ----
\* Each specification runs one script; the other scripts stay idle.

\* TeamConfig.get_config and ScraperFactory.create_scraper on one team id
StartDispatch ==
    InitDispatch /\ RosterIdle /\ TeamIdsIdle /\ PlayerGameIdle /\ RetryIdle
    /\ GamesIdle /\ CoachDbIdle /\ SeasonIdle /\ ExtractIdle /\ BiosIdle /\
    ConvertIdle /\ OfficialDaysIdle /\ http = HttpIdle
SpecDispatch == StartDispatch /\ [][NextDispatch]_vars

\* RosterManager.scrape_multiple_teams
StartScrape ==
    InitScrape /\ DispatchIdle /\ TeamIdsIdle /\ PlayerGameIdle /\ RetryIdle
    /\ GamesIdle /\ CoachDbIdle /\ SeasonIdle /\ ExtractIdle /\ BiosIdle /\
    ConvertIdle /\ OfficialDaysIdle /\ http = HttpIdle
SpecScrape == StartScrape /\ [][NextScrape]_vars

\* main of rosters.py
StartMain ==
    InitMain /\ DispatchIdle /\ TeamIdsIdle /\ PlayerGameIdle /\ RetryIdle
    /\ GamesIdle /\ CoachDbIdle /\ SeasonIdle /\ ExtractIdle /\ BiosIdle /\
    ConvertIdle /\ OfficialDaysIdle /\ http = HttpIdle
SpecMain == StartMain /\ [][NextMain]_vars

\* the three scraping loops
StartLoops ==
    InitLoops /\ DispatchIdle /\ RetryIdle /\ GamesIdle /\ CoachDbIdle /\
    SeasonIdle /\ ExtractIdle /\ BiosIdle /\ ConvertIdle /\ OfficialDaysIdle
    /\ http = HttpIdle
SpecLoops == StartLoops /\ [][NextLoops]_vars

\* limit_handled and get_players
StartRetry ==
    InitRetry /\ DispatchIdle /\ RosterIdle /\ TeamIdsIdle /\ PlayerGameIdle
    /\ GamesIdle /\ CoachDbIdle /\ SeasonIdle /\ ExtractIdle /\ BiosIdle /\
    ConvertIdle /\ OfficialDaysIdle /\ http = HttpIdle
SpecRetry == StartRetry /\ [][NextRetry]_vars

\* fetch_game_stats
StartGames ==
    InitGames /\ DispatchIdle /\ RosterIdle /\ TeamIdsIdle /\ PlayerGameIdle
    /\ RetryIdle /\ CoachDbIdle /\ SeasonIdle /\ ExtractIdle /\ BiosIdle /\
    ConvertIdle /\ OfficialDaysIdle /\ http = HttpIdle
SpecGames == StartGames /\ [][NextGames]_vars

\* load_coaching_histories and insert_coaching_data
StartCoachDb ==
    InitCoachDb /\ DispatchIdle /\ RosterIdle /\ TeamIdsIdle /\
    PlayerGameIdle /\ RetryIdle /\ GamesIdle /\ SeasonIdle /\ ExtractIdle /\
    BiosIdle /\ ConvertIdle /\ OfficialDaysIdle /\ http = HttpIdle
SpecCoachDb == StartCoachDb /\ [][NextCoachDb]_vars

\* validate_season on one argument
StartSeason ==
    InitSeason /\ DispatchIdle /\ RosterIdle /\ TeamIdsIdle /\
    PlayerGameIdle /\ RetryIdle /\ GamesIdle /\ CoachDbIdle /\ ExtractIdle
    /\ BiosIdle /\ ConvertIdle /\ OfficialDaysIdle /\ http = HttpIdle
SpecSeason == StartSeason /\ [][NextSeason]_vars

\* main of extract_coaching_histories.py
StartExtract ==
    InitExtract /\ DispatchIdle /\ RosterIdle /\ TeamIdsIdle /\
    PlayerGameIdle /\ RetryIdle /\ GamesIdle /\ CoachDbIdle /\ SeasonIdle /\
    BiosIdle /\ ConvertIdle /\ OfficialDaysIdle /\ http = HttpIdle
SpecExtract == StartExtract /\ [][NextExtract]_vars

\* main of fetch_coach_bios.py
StartBios ==
    InitBios /\ DispatchIdle /\ RosterIdle /\ TeamIdsIdle /\ PlayerGameIdle
    /\ RetryIdle /\ GamesIdle /\ CoachDbIdle /\ SeasonIdle /\ ExtractIdle /\
    ConvertIdle /\ OfficialDaysIdle /\ http = HttpIdle
SpecBios == StartBios /\ [][NextBios]_vars

\* convert_csv_to_json
StartConvert ==
    InitConvert /\ DispatchIdle /\ RosterIdle /\ TeamIdsIdle /\
    PlayerGameIdle /\ RetryIdle /\ GamesIdle /\ CoachDbIdle /\ SeasonIdle /\
    ExtractIdle /\ BiosIdle /\ OfficialDaysIdle /\ http = HttpIdle
SpecConvert == StartConvert /\ [][NextConvert]_vars

\* convert_officials_to_csv
StartOfficialDays ==
    InitOfficialDays /\ DispatchIdle /\ RosterIdle /\ TeamIdsIdle /\
    PlayerGameIdle /\ RetryIdle /\ GamesIdle /\ CoachDbIdle /\ SeasonIdle /\
    ExtractIdle /\ BiosIdle /\ ConvertIdle /\ http = HttpIdle
SpecOfficialDays == StartOfficialDays /\ [][NextOfficialDays]_vars

Init == StartDispatch
Next == NextDispatch
Spec == Init /\ [][Next]_vars

(***************************************************************************)
(* Claims                                                                  *)
(***************************************************************************)
Strategies == {"standard", "table", "javascript", "vue_data"}

\* C1: every team id, listed in a TeamConfig table or not, gets a
\* configuration whose 'type' is one of the four strategies, and
\* create_scraper builds the scraper class of that same strategy.
C1_DispatchedToOneStrategy ==
    /\ d_pc \in {"factory", "built"} => d_config.type \in Strategies
    /\ d_pc = "built" => d_scraper.class = StrategyClass[d_config.type]

\* C1 witness: a team of VUE_DATA_TEAMS without a 'type' of its own got a
\* VueDataScraper.
C1_Witness ==
    /\ d_pc = "built"
    /\ d_team_id \in DOMAIN VUE_DATA_TEAMS
    /\ d_config.type = "vue_data"
    /\ d_scraper.class = "VueDataScraper"

\* C2: in scrape_multiple_teams the teams are taken one at a time in the
\* order of get_teams, a failure on one team only skips that team, and at
\* the return every selected team has been attempted exactly once.
C2_EveryTeamAttemptedOnce ==
    LET n == IF m_pc = "verify" THEN idx ELSE idx - 1
    IN m_pc \in {"loop", "verify", "returned"} =>
          /\ Len(attempts) = n
          /\ \A i \in 1..n : attempts[i].team = teams[i].ncaa_id
          /\ m_pc = "returned" => n = Len(teams)

\* C2 witness: the loop returned after the first of two teams raised and
\* the second failed inside scrape_team_roster.
C2_Witness ==
    /\ m_pc = "returned"
    /\ Len(teams) = 2
    /\ Len(attempts) = 2
    /\ attempts[1].result = "raised"
    /\ attempts[2].result = "error"

\* C7: with --use-playwright (and Playwright installed), every team whose
\* strategy is 'javascript' is scraped with Playwright, not shot-scraper.
C7_PlaywrightUsed ==
    (args.use_playwright /\ PLAYWRIGHT_AVAILABLE) =>
        \A i \in 1..Len(attempts) :
            (attempts[i].type = "javascript" /\ attempts[i].result # "raised")
                => attempts[i].engine = "playwright"

\* The teams main selects: the -team of the -team/-url case, else the teams
\* get_teams returns for -teams / -team / no selection.
SelectedTeams ==
    IF args.url /\ args.team # 0 THEN {args.team}
    ELSE {t.ncaa_id : t \in Range(get_teams(MainTeamIds))}

\* C8: with --entity-type all, when main ends, every selected team has
\* been taken once as players and once as coaches, however the teams were
\* selected.
C8_AllScrapesBoth ==
    (main_pc \in {"done", "crashed"} /\ args.entity_type = "all") =>
        \A t \in SelectedTeams :
            /\ \E i \in 1..Len(attempts) :
                  attempts[i].team = t /\ attempts[i].entity = "player"
            /\ \E i \in 1..Len(attempts) :
                  attempts[i].team = t /\ attempts[i].entity = "coach"

\* C3: in every scraping loop at most one HTTP request is in flight, and
\* any two consecutive requests are separated by a sleep(), on the failure
\* path of an iteration as on its success path.
C3_OneRequestThenSleep ==
    /\ http.inflight <= 1
    /\ ~http.unspaced

\* The requests of the log, and the sleeps between two of them.
IsRequest(i) == r_log[i].kind = "request"

NextRequest(i, k) ==
    /\ i < k
    /\ IsRequest(i) /\ IsRequest(k)
    /\ \A j \in (i + 1)..(k - 1) : ~IsRequest(j)

RECURSIVE SleptBetween(_, _)
SleptBetween(i, k) ==
    IF i >= k THEN 0 ELSE r_log[i].secs + SleptBetween(i + 1, k)

C5_WrittenOnce == \A file \in DOMAIN writes : writes[file] <= 1

\* the three child tables of the loader that runs
ChildTables ==
    IF c_loader = "insert_coaching_data" THEN {"positions", "education", "playing"}
    ELSE {"positions", "education", "playing_career"}

\* C6: after a coach database load completes, every row of the positions,
\* education and playing-career tables references an existing coach: its
\* coach_url (load_coaching_histories) or coach_name (insert_coaching_data)
\* is the primary key of some row of the coaches table.
C6_ChildRowsReferenceCoach ==
    c_pc = "done" =>
        \A table \in ChildTables : \A key \in Rows(db, table) :
            \E coach \in Rows(db, "coaches") : coach[coaches_pk] = key

\* C6 witness: insert_coaching_data has completed its second run on the
\* file; two coaches are in the table and every child table has rows of
\* both.
C6_Witness ==
    /\ c_pc = "done"
    /\ c_loader = "insert_coaching_data"
    /\ c_run = 2
    /\ Cardinality(Rows(db, "coaches")) = 2
    /\ \A table \in ChildTables : Rows(db, table) = Names

\* the strings YYYY-YY whose end year is the year after the start year
IsSeason(x) ==
    /\ x.type = "str"
    /\ Len(x.chars) = 7
    /\ \A i \in {1, 2, 3, 4, 6, 7} : x.chars[i] \in Digits
    /\ x.chars[5] = "-"
    /\ int(SubSeq(x.chars, 6, 7)) = (int(SubSeq(x.chars, 1, 4)) + 1) % 100

\* C9: validate_season(season) returns True exactly when season is a
\* string YYYY-YY whose two-digit end year is the year after the start
\* year, and raises ValueError for every other argument.
C9_TrueExactlyForSeasons ==
    vs_pc # "call" =>
        IF IsSeason(season) THEN vs_result = "True" ELSE vs_result = "ValueError"

\* C10: in --resume or --only-empty mode the file the run writes keeps
\* every non-empty positions, education or playing_career array of the
\* existing file.  Stated for the coaches the claim can least be doubted
\* for: those the existing file lists once and that still have a biography.
C10_ExistingPreserved ==
    (e_pc = "saved" /\ (e_args.resume \/ e_args.only_empty)) =>
        \A i \in 1..Len(existing_histories.histories) :
            LET h == existing_histories.histories[i]
            IN (/\ h.key \in Range(coaches_bios)
                /\ \A j \in 1..Len(existing_histories.histories) :
                      existing_histories.histories[j].key = h.key => j = i)
               => \A k \in 1..Len(histories_file.histories) :
                     histories_file.histories[k].key = h.key =>
                        \A f \in Fields :
                            h[f] # <<>> => histories_file.histories[k][f] = h[f]

\* C11: when --limit N is given, only the first N records that remain
\* after the other filters are processed, so at most N articles are
\* fetched, whatever --names, --shuffle and --demo are.  (Stated for
\* N >= 0.)
C11_AtMostLimitFetched ==
    (b_args.limit.given /\ b_args.limit.n >= 0) =>
        /\ fetched <= b_args.limit.n
        /\ Len(b_rows) <= b_args.limit.n

\* C12: every record of the JSON output of fetch_coach_bios.py has every
\* column of its CSV row with the CSV value unchanged, and a text field
\* that holds the extracted article text.
C12_ColumnsPreserved ==
    bios_file.written =>
        \A i \in 1..Len(bios_file.data) :
            LET row == bios_file.data[i].row
                json == bios_file.data[i].json
            IN /\ \A c \in DOMAIN row : c \in DOMAIN json /\ json[c] = row[c]
               /\ "text" \in DOMAIN json
               /\ json["text"] = "article text"

\* the number an integer column of the CSV holds (-1 for an empty value)
NumberIn(value) == IF value = <<>> THEN -1 ELSE int(value)

\* the combination of a CSV line the rows are deduplicated on: the date,
\* the teams and the officials as written, the integer columns as numbers
Combination(row) ==
    <<row.date, row.home, NumberIn(row.home_fouls), NumberIn(row.home_technicals),
      row.visitor, NumberIn(row.visitor_fouls), NumberIn(row.visitor_technicals),
      row.officials>>

\* the places of the lines that are the first of their combination
FirstOccurrences(lines) ==
    {i \in 1..Len(lines) :
        \A j \in 1..(i - 1) : Combination(lines[j]) # Combination(lines[i])}

C14_ThreeOfficials ==
    json_file.written =>
        \A k \in 1..Len(json_file.games) : Len(json_file.games[k].officials) = 3

\* C15 as claimed: the CSV has exactly one row per distinct (date,
\* start_time, location, official) whose location and official are both
\* non-empty, and no other rows.
C15_OneRowPerNonEmpty ==
    csv_file.written =>
        /\ \A i, j \in 1..Len(csv_file.rows) : csv_file.rows[i] = csv_file.rows[j] => i = j
        /\ Range(csv_file.rows) =
              {e \in seen_entries : e.location # <<>> /\ e.official # <<>>}

\* C15 amended: the CSV has exactly one row per distinct (date, start_time,
\* location, official) whose location and official both have a character
\* that is not a blank (an empty or all-blank location or official counts
\* as missing), and no other rows.
C15_OneRowPerNonBlank ==
    csv_file.written =>
        /\ \A i, j \in 1..Len(csv_file.rows) : csv_file.rows[i] = csv_file.rows[j] => i = j
        /\ Range(csv_file.rows) =
              {e \in seen_entries : strip(e.location) # <<>> /\ strip(e.official) # <<>>}

\* C15 witness: the file is written with two rows; among the entries read
\* there were one with a blank location and one with a blank official.
C15_Witness ==
    /\ csv_file.written
    /\ Len(csv_file.rows) = 2
    /\ \E e \in seen_entries : e.location = <<" ">> /\ e.official = <<"a">>
    /\ \E e \in seen_entries : e.location = <<"G">> /\ e.official = <<" ">>

\* the strategy types of the tables that list a team id
TableTypes(team_id) ==
    (IF team_id \in DOMAIN NUXT_JS_TEAMS \cup S_PERSON_CARD_TEAMS
                        \cup DOMAIN CUSTOM_JS_TEAMS THEN {"javascript"} ELSE {})
    \cup (IF team_id \in DOMAIN TABLE_BASED_TEAMS THEN {"table"} ELSE {})
    \cup (IF team_id \in DOMAIN VUE_DATA_TEAMS THEN {"vue_data"} ELSE {})
    \cup (IF team_id \in DOMAIN PRESTOSPORTS_SEASON_FIRST THEN {"standard"} ELSE {})

\* C16: for every team id listed in a TeamConfig table, get_config returns
\* the strategy type the table stands for: 'javascript' for NUXT_JS_TEAMS,
\* S_PERSON_CARD_TEAMS and CUSTOM_JS_TEAMS, 'table' for TABLE_BASED_TEAMS,
\* 'vue_data' for VUE_DATA_TEAMS, 'standard' for PRESTOSPORTS_SEASON_FIRST.
C16_TableGivesItsType ==
    d_pc \in {"factory", "built"} =>
        \A type \in TableTypes(d_team_id) : d_config.type = type

\* the types the tables listing a team id give it, an entry's own 'type'
\* key taking the place of its table's type
EntryTypes(team_id) ==
    (IF team_id \in DOMAIN NUXT_JS_TEAMS \cup S_PERSON_CARD_TEAMS THEN {"javascript"} ELSE {})
    \cup (IF team_id \in DOMAIN CUSTOM_JS_TEAMS
            THEN {IF CUSTOM_JS_TEAMS[team_id] = NoType THEN "javascript"
                  ELSE CUSTOM_JS_TEAMS[team_id]} ELSE {})
    \cup (IF team_id \in DOMAIN TABLE_BASED_TEAMS
            THEN {IF TABLE_BASED_TEAMS[team_id] = NoType THEN "table"
                  ELSE TABLE_BASED_TEAMS[team_id]} ELSE {})
    \cup (IF team_id \in DOMAIN VUE_DATA_TEAMS
            THEN {IF VUE_DATA_TEAMS[team_id] = NoType THEN "vue_data"
                  ELSE VUE_DATA_TEAMS[team_id]} ELSE {})
    \cup (IF team_id \in DOMAIN PRESTOSPORTS_SEASON_FIRST
            THEN {IF PRESTOSPORTS_SEASON_FIRST[team_id] = NoType THEN "standard"
                  ELSE PRESTOSPORTS_SEASON_FIRST[team_id]} ELSE {})

\* C16 (amended): for every team id listed in a TeamConfig table, get_config
\* returns the entry's own 'type' where the entry has one, and otherwise the
\* type the table stands for; the VUE_DATA_TEAMS entries that carry
\* 'type': 'standard' give 'standard', not 'vue_data'.
C16_EntryTypeElseTableType ==
    d_pc \in {"factory", "built"} =>
        \A type \in EntryTypes(d_team_id) : d_config.type = type

\* get_config has answered for a VUE_DATA_TEAMS entry with its own type
C16_Witness ==
    /\ d_pc = "factory"
    /\ d_team_id \in DOMAIN VUE_DATA_TEAMS
    /\ VUE_DATA_TEAMS[d_team_id] = "standard"
    /\ d_config.type = "standard"

====
